---- MODULE Spec2Model ----
(***************************************************************************)
(* State-machine model of the scaling Data Manager                         *)
(* (src/algorithms/scaling/data_manager_functions.py): the base class      *)
(* Data_Manager and its two variants aimless_Data_Manager and              *)
(* XDS_Data_Manager.                                                       *)
(*                                                                         *)
(* Numbers.  Pixel/frame coordinates and 1/d^2 are fixed-point integers in *)
(* units of 0.001 (Milli), so that the code's 0.001 margins are 1.         *)
(* Normalised coordinates are exact rationals <<numerator, denominator>>.  *)
(* Statistical weights 1/variance are held in units of 1/4.  Ih values are *)
(* exact fractions <<sum g.I.w, sum g^2.w>>.  exp is taken to base 2 so    *)
(* that it stays within the integers (exp(a+b) = exp(a).exp(b) is kept).   *)
(*                                                                         *)
(* Optional attributes: None is <<>> and a set attribute x is <<x>>.       *)
(***************************************************************************)
EXTENDS Integers, Sequences, FiniteSets, TLC

MaxRefl == 3
MaxCalls == 3
Milli == 1000

None == <<>>
Some(x) == <<x>>
Get(o) == o[1]

(***************************************************************************)
(* Arithmetic helpers                                                      *)
(***************************************************************************)
Floor(q) == q[1] \div q[2]

RECURSIVE Exp(_)
Exp(x) == IF x <= 0 THEN 1 ELSE 2 * Exp(x - 1)

Sqrt(v) == CHOOSE s \in 0..v : s * s = v

InverseVariance(v) == 4 \div v

RECURSIVE SeqSum(_)
SeqSum(s) == IF s = <<>> THEN 0 ELSE Head(s) + SeqSum(Tail(s))

SeqMax(s) == CHOOSE m \in {s[i] : i \in 1..Len(s)} : \A i \in 1..Len(s) : s[i] <= m
SeqMin(s) == CHOOSE m \in {s[i] : i \in 1..Len(s)} : \A i \in 1..Len(s) : m <= s[i]

Range(s) == {s[i] : i \in 1..Len(s)}

(***************************************************************************)
(* flex.reflection_table: a column-oriented table is                       *)
(* [keys |-> set of column names, rows |-> sequence of rows], each row a   *)
(* function from the column names to values.                               *)
(***************************************************************************)
Column(t, key) == [i \in 1..Len(t.rows) |-> t.rows[i][key]]

SetColumn(t, key, vals) ==
  [keys |-> t.keys \cup {key},
   rows |-> [i \in 1..Len(t.rows) |-> (key :> vals[i]) @@ t.rows[i]]]

DelColumn(t, key) ==
  [keys |-> t.keys \ {key},
   rows |-> [i \in 1..Len(t.rows) |->
               [k \in (DOMAIN t.rows[i]) \ {key} |-> t.rows[i][k]]]]

RECURSIVE DelColumns(_, _)
DelColumns(t, ks) ==
  IF ks = <<>> THEN t ELSE DelColumns(DelColumn(t, Head(ks)), Tail(ks))

RECURSIVE SelectIdx(_, _)
SelectIdx(flags, i) ==
  IF i > Len(flags) THEN <<>>
  ELSE (IF flags[i] THEN <<i>> ELSE <<>>) \o SelectIdx(flags, i + 1)

\* table.select(flags): the rows whose flag is set, in their order
Select(t, flags) ==
  LET idx == SelectIdx(flags, 1)
  IN [keys |-> t.keys, rows |-> [j \in 1..Len(idx) |-> t.rows[idx[j]]]]

\* table.select(permutation): the rows in the order the permutation gives
Permute(t, perm) ==
  [keys |-> t.keys, rows |-> [j \in 1..Len(perm) |-> t.rows[perm[j]]]]

(***************************************************************************)
(* Inputs: the reflections handed to the constructor are an                *)
(* order-preserving selection of at most MaxRefl of the integrated         *)
(* observations, or the unintegrated one followed by at most one of them,  *)
(* or a table with an intense observation and one beyond the resolution    *)
(* limit.                                                                  *)
(***************************************************************************)
InputKeys ==
  {"miller_index", "intensity.prf.value", "intensity.prf.variance",
   "lp", "dqe", "d", "xyzobs.px.value", "flags"}

Observation(h, val, var, lp, d, xyz, integrated) ==
  ("miller_index" :> h) @@ ("intensity.prf.value" :> val) @@
  ("intensity.prf.variance" :> var) @@ ("lp" :> lp) @@ ("dqe" :> 1) @@
  ("d" :> d) @@ ("xyzobs.px.value" :> xyz) @@ ("flags" :> integrated)

Candidates ==
  << Observation(1, 4, 1, 2, 4, <<0, 0, 0>>, TRUE),
     Observation(2, 3, 1, 1, 2, <<2000, 1000, 5000>>, TRUE),
     Observation(-1, 6, 1, 1, 4, <<1000, 2000, 10000>>, TRUE),
     Observation(-2, 0, 1, 1, 2, <<2000, 0, 5000>>, TRUE) >>

Unintegrated == Observation(1, 5, 1, 1, 4, <<0, 1000, 0>>, FALSE)

\* an observation in the tail of the intensity distribution
Intense == Observation(3, 9, 1, 1, 2, <<1000, 1000, 5000>>, TRUE)

\* an observation beyond the resolution limit d_min
Unresolved == Observation(-3, 5, 1, 1, 1, <<1000, 0, 10000>>, TRUE)

RECURSIVE SubSeqsFrom(_, _)
\* the order-preserving selections of at most n of the observations from k on
SubSeqsFrom(k, n) ==
  IF k > Len(Candidates) \/ n = 0 THEN {<<>>}
  ELSE SubSeqsFrom(k + 1, n)
       \cup {<<Candidates[k]>> \o s : s \in SubSeqsFrom(k + 1, n - 1)}

InputTables ==
  {[keys |-> InputKeys, rows |-> s] : s \in SubSeqsFrom(1, MaxRefl) \ {<<>>}}
  \cup {[keys |-> InputKeys, rows |-> <<Unintegrated>> \o s] :
          s \in SubSeqsFrom(1, 1)}
  \cup {[keys |-> InputKeys, rows |-> <<Intense, Unresolved>> \o s] :
          s \in {<<Candidates[1]>>, <<Candidates[4]>>}}

\* scaling_options: the three parameterization names tried, the rest fixed
ScalingOptions(parameterization) ==
  [parameterization |-> parameterization, integration_method |-> "prf",
   Isigma_min |-> 1, d_min |-> 2,
   n_d_bins |-> Some(1), n_z_bins |-> Some(2), n_detector_bins |-> Some(1)]

\* the binning parameters XDS_Data_Manager has no default for
RequiredBinningParameters == {"n_d_bins", "n_z_bins", "n_detector_bins"}

\* scaling_options that leave one of them out
ScalingOptionsWithout(key) == [ScalingOptions("standard") EXCEPT ![key] = None]

\* experiments: scan oscillation (start, width) and oscillation range, degrees
\* and the detector panel's image size, pixels
Experiments ==
  [oscillation |-> <<0, 1>>, oscillation_range |-> <<0, 60>>,
   image_size |-> <<2, 2>>]

(***************************************************************************)
(* cctbx: miller_set.map_to_asu() and sort_permutation().  The symmetry    *)
(* here is the inversion h ~ -h; the sort does not fix the order of equal  *)
(* indices.                                                                *)
(***************************************************************************)
AsuIndex(h) == IF h < 0 THEN -h ELSE h

IndexPermutations(n) ==
  {p \in [1..n -> 1..n] : \A i, j \in 1..n : p[i] = p[j] => i = j}

SortPermutations(indices) ==
  {p \in IndexPermutations(Len(indices)) :
     \A i \in 1..(Len(indices) - 1) : indices[p[i]] <= indices[p[i + 1]]}

(***************************************************************************)
(* reflection_weighting.Weighting and Wilson_outlier_test                  *)
(***************************************************************************)
\* the outlier test flags an observation whose intensity is in the tail
calculate_wilson_outliers(t) ==
  [i \in 1..Len(t.rows) |-> t.rows[i]["intensity"] >= 9]

\* Weighting(table): the statistical weight 1/variance of every row
Weighting(t) ==
  [i \in 1..Len(t.rows) |-> InverseVariance(t.rows[i]["variance"])]

apply_Isigma_cutoff(weights, t, Isigma_min) ==
  [i \in 1..Len(t.rows) |->
     IF t.rows[i]["intensity"] < Isigma_min * Sqrt(t.rows[i]["variance"])
     THEN 0 ELSE weights[i]]

apply_dmin_cutoff(weights, t, d_min) ==
  [i \in 1..Len(t.rows) |-> IF t.rows[i]["d"] < d_min THEN 0 ELSE weights[i]]

\* the flags count once the outlier test has added its column
remove_wilson_outliers(weights, t) ==
  IF "wilson_outlier_flag" \notin t.keys THEN weights
  ELSE [i \in 1..Len(t.rows) |->
          IF t.rows[i]["wilson_outlier_flag"] THEN 0 ELSE weights[i]]

\* a faulty weighting that leaves the resolution cutoff out
update_weights_without_dmin_cutoff(options, t) ==
  remove_wilson_outliers(
    apply_Isigma_cutoff(Weighting(t), t, options.Isigma_min), t)

\* one weight per row
update_weights_for_scaling(options, t) ==
  remove_wilson_outliers(
    apply_dmin_cutoff(
      apply_Isigma_cutoff(Weighting(t), t, options.Isigma_min),
      t, options.d_min),
    t)

\* a faulty extraction that keeps every row, whatever its weight
extract_reflections_keeping_all(options, t) ==
  <<t, update_weights_for_scaling(options, t)>>

\* extract_reflections_for_scaling without the second weights computation
extract_reflections_with_stale_weights(options, t) ==
  LET weights_for_scaling == update_weights_for_scaling(options, t)
      sel == [i \in 1..Len(t.rows) |-> weights_for_scaling[i] > 0]
  IN <<Select(t, sel), weights_for_scaling>>

extract_reflections_for_scaling(options, t) ==
  LET weights_for_scaling == update_weights_for_scaling(options, t)
      sel == [i \in 1..Len(t.rows) |-> weights_for_scaling[i] > 0]
      reflections_for_scaling == Select(t, sel)
  IN <<reflections_for_scaling,
       update_weights_for_scaling(options, reflections_for_scaling)>>

(***************************************************************************)
(* scale_factor (SF): a smooth scale factor owns one parameter per grid    *)
(* node and the normalised coordinates of the reflections it was last      *)
(* given.  The scale of a reflection is read at the node below its         *)
(* coordinate.                                                             *)
(***************************************************************************)
RECURSIVE Product(_)
Product(s) == IF s = <<>> THEN 1 ELSE Head(s) * Product(Tail(s))

\* a grid of shape nodes whose first node along each axis is at origin
SmoothScaleFactor(initial, shape, origin) ==
  [initial |-> initial, shape |-> shape, origin |-> origin,
   parameters |-> [k \in 1..Product(shape) |-> initial],
   normalised_values |-> <<>>]

RECURSIVE NodeIndex(_, _, _)
\* the position in the parameter vector of the node below coords, first axis
\* fastest
NodeIndex(origin, shape, coords) ==
  IF Len(coords) = 1 THEN Floor(coords[1]) - origin[1] + 1
  ELSE (Floor(coords[1]) - origin[1] + 1)
       + shape[1] * (NodeIndex(Tail(origin), Tail(shape), Tail(coords)) - 1)

\* set_normalised_values: coords is one tuple of coordinates per reflection
set_normalised_values(g, coords) == [g EXCEPT !.normalised_values = coords]

set_scale_factors(g, parameters) == [g EXCEPT !.parameters = parameters]

get_scale_factors(g) == g.parameters

calculate_smooth_scales(g) ==
  [i \in 1..Len(g.normalised_values) |->
     g.parameters[NodeIndex(g.origin, g.shape, g.normalised_values[i])]]

get_scales_of_reflections(g) == calculate_smooth_scales(g)

\* the columns of a table as one tuple of coordinates per row
Coords(t, keys) ==
  [i \in 1..Len(t.rows) |-> [j \in 1..Len(keys) |-> t.rows[i][keys[j]]]]

(***************************************************************************)
(* target_Ih.single_Ih_table: the grouped view of a sorted table.  Groups  *)
(* are the runs of equal asu miller index between adjacent rows.           *)
(***************************************************************************)
RECURSIVE GroupCounts(_, _, _)
\* scan from row i (i >= 2) with the size so far of the current group
GroupCounts(asu, i, h_index_counter) ==
  IF i > Len(asu) THEN <<h_index_counter>>
  ELSE IF asu[i] = asu[i - 1]
       THEN GroupCounts(asu, i + 1, h_index_counter + 1)
       ELSE <<h_index_counter>> \o GroupCounts(asu, i + 1, 1)

\* <<h_index_counter_array, h_index_cumulative_array>>; the last group is
\* appended after the scan, for a table of no rows too
assign_h_index(asu) ==
  LET h_index_counter_array == GroupCounts(asu, 2, 1)
      h_index_cumulative_array ==
        [g \in 1..(Len(h_index_counter_array) + 1) |->
           SeqSum(SubSeq(h_index_counter_array, 1, g - 1))]
  IN <<h_index_counter_array, h_index_cumulative_array>>

\* np.add.reduceat refuses a start index that is not a position of values
ReduceAtError(values, cumulative) ==
  \E g \in 1..(Len(cumulative) - 1) : cumulative[g] >= Len(values)

\* np.add.reduceat(values, cumulative[:-1]): the sum over each group's rows
ReduceAt(values, cumulative) ==
  [g \in 1..(Len(cumulative) - 1) |->
     SeqSum(SubSeq(values, cumulative[g] + 1, cumulative[g + 1]))]

\* np.repeat(values, counts)
Repeat(values, cumulative, n) ==
  [i \in 1..n |->
     values[CHOOSE g \in 1..Len(values) :
              cumulative[g] < i /\ i <= cumulative[g + 1]]]

\* a faulty estimator that leaves the weights out of the sums
calc_Ih_unweighted(T) ==
  LET n == Len(T.intensity)
      gsq == [i \in 1..n |-> T.inverse_scale_factor[i] * T.inverse_scale_factor[i]]
      gI == [i \in 1..n |-> T.inverse_scale_factor[i] * T.intensity[i]]
      sumgsq == ReduceAt(gsq, T.h_index_cumulative_array)
      sumgI == ReduceAt(gI, T.h_index_cumulative_array)
      Ih_array == [g \in 1..Len(sumgI) |-> <<sumgI[g], sumgsq[g]>>]
  IN IF ReduceAtError(T.intensity, T.h_index_cumulative_array)
     THEN [T EXCEPT !.raised = "IndexError"]
     ELSE [T EXCEPT !.Ih_values = Repeat(Ih_array, T.h_index_cumulative_array, n)]

calc_Ih(T) ==
  IF ReduceAtError(T.intensity, T.h_index_cumulative_array)
  THEN [T EXCEPT !.raised = "IndexError"]
  ELSE
  LET n == Len(T.intensity)
      gsq == [i \in 1..n |->
                T.inverse_scale_factor[i] * T.inverse_scale_factor[i] * T.weights[i]]
      sumgsq == ReduceAt(gsq, T.h_index_cumulative_array)
      gI == [i \in 1..n |->
               T.inverse_scale_factor[i] * T.intensity[i] * T.weights[i]]
      sumgI == ReduceAt(gI, T.h_index_cumulative_array)
      sumweights == ReduceAt(T.weights, T.h_index_cumulative_array)
      Ih_array == [g \in 1..Len(sumgI) |->
                     IF sumweights[g] > 0 THEN <<sumgI[g], sumgsq[g]>>
                     ELSE <<0, 1>>]
  IN [T EXCEPT !.Ih_values = Repeat(Ih_array, T.h_index_cumulative_array, n)]

update_scale_factors(T, scales) == [T EXCEPT !.inverse_scale_factor = scales]

single_Ih_table(t, weights) ==
  LET h == assign_h_index(Column(t, "asu_miller_index"))
  IN calc_Ih([asu_miller_index |-> Column(t, "asu_miller_index"),
              intensity |-> Column(t, "intensity"),
              inverse_scale_factor |-> Column(t, "inverse_scale_factor"),
              weights |-> weights,
              Ih_values |-> <<>>,
              raised |-> "",
              h_index_counter_array |-> h[1],
              h_index_cumulative_array |-> h[2]])

\* target function: the residual I - g.Ih of each row, over Ih's denominator
calculate_residuals(T) ==
  [i \in 1..Len(T.intensity) |->
     <<T.intensity[i] * T.Ih_values[i][2]
         - T.inverse_scale_factor[i] * T.Ih_values[i][1],
       T.Ih_values[i][2]>>]

(***************************************************************************)
(* The Data Manager object.  self is the record of its attributes; raised  *)
(* names the exception the running method ended with ("" when it returned).*)
(* g_parameterisation maps a component name to <<>> while it is the very  *)
(* object the attribute of that name holds, and to <<g>> once the          *)
(* attribute was re-assigned and the dict still holds the earlier object g.*)
(***************************************************************************)
VARIABLES variant, reflections, scaling_options, self, pc, call, ncalls

\* the CentroidAnalyser object and its caller
VARIABLES ca

\* the scaler of the basis and target function tests, its components, active
\* parameter manager and targets
VARIABLES sc

\* the spot finder's threshold strategy and the buffers it has allocated
VARIABLES ts

\* the crystal model
VARIABLES cr

\* the state outside the scaling data manager
others == <<ca, sc, ts, cr>>

vars ==
  <<variant, reflections, scaling_options, self, pc, call, ncalls, ca, sc, ts, cr>>

ComponentNames == {"g_absorption", "g_modulation", "g_decay"}

NewObject ==
  [reflection_table |-> None, initial_keys |-> {},
   sorted_by_miller_index |-> FALSE, sorted_reflections |-> None,
   reflections_for_scaling |-> None, Ih_array |-> None,
   scaling_options |-> None, weights_for_scaling |-> None,
   binning_parameters |-> None, bin_boundaries |-> None,
   n_absorption_bins |-> None,
   g_absorption |-> None, g_modulation |-> None, g_decay |-> None,
   g_scale |-> None,
   n_active_params |-> None, active_parameters |-> None,
   n_g_scale_params |-> None, n_g_decay_params |-> None,
   active_parameterisation |-> None, constant_g_values |-> None,
   g_parameterisation |-> None, Ih_table |-> None,
   active_derivatives |-> None,
   h_index_counter_array |-> None, h_index_cumulative_array |-> None,
   raised |-> "", returned |-> None]

Raise(obj, exception) == [obj EXCEPT !.raised = exception]

\* self.<name> = g; the dict keeps the object it was built with
AssignComponent(obj, name, g) ==
  LET registry == obj.g_parameterisation
  IN [obj EXCEPT
        ![name] = Some(g),
        !.g_parameterisation =
          IF registry = None \/ Get(registry)[name] # None THEN registry
          ELSE Some([Get(registry) EXCEPT ![name] = obj[name]])]

\* the component the dict holds under name
Registered(obj, name) ==
  IF Get(obj.g_parameterisation)[name] = None THEN Get(obj[name])
  ELSE Get(Get(obj.g_parameterisation)[name])

\* write through the dict
SetRegistered(obj, name, g) ==
  IF Get(obj.g_parameterisation)[name] = None
  THEN [obj EXCEPT ![name] = Some(g)]
  ELSE [obj EXCEPT !.g_parameterisation =
          Some([Get(obj.g_parameterisation) EXCEPT ![name] = Some(g)])]

(***************************************************************************)
(* Data_Manager                                                            *)
(***************************************************************************)
\* 'combine' sets the method to 'prf' and selects again
select_optimal_intensities(obj) ==
  LET rt == Get(obj.reflection_table)
      method == Get(obj.scaling_options).integration_method
      intstr == IF method = "combine" THEN "prf" ELSE method
      value == IF intstr = "sum" THEN "intensity.sum.value"
               ELSE "intensity.prf.value"
      variance == IF intstr = "sum" THEN "intensity.sum.variance"
                  ELSE "intensity.prf.variance"
      n == Len(rt.rows)
  IN IF method \notin {"sum", "prf", "combine"} THEN obj
     ELSE IF ~({value, variance, "lp", "dqe"} \subseteq rt.keys)
     THEN Raise([obj EXCEPT
                   !.scaling_options =
                     Some([Get(obj.scaling_options) EXCEPT
                             !.integration_method = intstr])],
                "KeyError")
     ELSE
     LET val == Column(rt, value)
         var == Column(rt, variance)
         lp == Column(rt, "lp")
         dqe == Column(rt, "dqe")
         rt1 == SetColumn(rt, "intensity",
                  [i \in 1..n |-> (val[i] * lp[i]) \div dqe[i]])
         rt2 == SetColumn(rt1, "variance",
                  [i \in 1..n |->
                     (var[i] * lp[i] * lp[i]) \div (dqe[i] * dqe[i])])
     IN [obj EXCEPT
           !.reflection_table = Some(rt2),
           !.scaling_options =
             Some([Get(obj.scaling_options) EXCEPT
                     !.integration_method = intstr])]

\* a faulty mapping that returns the table in the order it was given
map_indices_to_asu_unsorted(obj, perm) ==
  LET rt == Get(obj.reflection_table)
      asu == [i \in 1..Len(rt.rows) |-> AsuIndex(rt.rows[i]["miller_index"])]
      rt1 == SetColumn(rt, "asu_miller_index", asu)
  IN [obj EXCEPT !.reflection_table = Some(rt1),
                 !.sorted_by_miller_index = TRUE,
                 !.sorted_reflections = Some(rt1)]

\* the asu index column is added to the table given, the sorted copy returned
map_indices_to_asu(obj, perm) ==
  LET rt == Get(obj.reflection_table)
      asu == [i \in 1..Len(rt.rows) |-> AsuIndex(rt.rows[i]["miller_index"])]
      rt1 == SetColumn(rt, "asu_miller_index", asu)
  IN [obj EXCEPT !.reflection_table = Some(rt1),
                 !.sorted_by_miller_index = TRUE,
                 !.sorted_reflections = Some(Permute(rt1, perm))]

Data_Manager_init(obj, refl, options, perm) ==
  LET rt0 == Select(refl, Column(refl, "flags"))
      n == Len(rt0.rows)
      xyz == Column(rt0, "xyzobs.px.value")
      rt1 == SetColumn(rt0, "x_value", [i \in 1..n |-> xyz[i][1]])
      rt2 == SetColumn(rt1, "y_value", [i \in 1..n |-> xyz[i][2]])
      rt3 == SetColumn(rt2, "z_value", [i \in 1..n |-> xyz[i][3]])
      rt4 == SetColumn(rt3, "inverse_scale_factor", [i \in 1..n |-> 1])
      rt5 == SetColumn(rt4, "Ih_values", [i \in 1..n |-> <<0, 1>>])
      s1 == [obj EXCEPT !.reflection_table = Some(rt5),
                        !.initial_keys = rt0.keys,
                        !.scaling_options = Some(options)]
      s2 == map_indices_to_asu(select_optimal_intensities(s1), perm)
  IN [s2 EXCEPT !.weights_for_scaling =
        Some(update_weights_for_scaling(Get(s2.scaling_options),
                                        Get(s2.sorted_reflections)))]

\* the permutations the sort may return for the table the constructor is given
SortChoices(refl) ==
  LET rt0 == Select(refl, Column(refl, "flags"))
  IN SortPermutations([i \in 1..Len(rt0.rows) |->
                         AsuIndex(rt0.rows[i]["miller_index"])])

(***************************************************************************)
(* XDS_Data_Manager: binning                                               *)
(***************************************************************************)
InitialValue(obj) ==
  IF Get(obj.scaling_options).parameterization = "log" THEN 0 ELSE 1

\* 1/d^2 in fixed point
InvDSq(d) == Milli \div (d * d)

Floors(qs) == [i \in 1..Len(qs) |-> Floor(qs[i])]

\* the exception the reads at the top of a binning method end with, or ""
ReadError(obj, columns, bins) ==
  IF obj.sorted_reflections = None THEN "TypeError"
  ELSE IF ~(columns \subseteq Get(obj.sorted_reflections).keys) THEN "KeyError"
  ELSE IF Len(Get(obj.sorted_reflections).rows) = 0 THEN "ValueError"
  ELSE IF \E b \in bins : Get(obj.binning_parameters)[b] = None THEN "TypeError"
  ELSE ""

bin_reflections_decay(obj) ==
  LET error == ReadError(obj, {"z_value", "d"}, {"n_d_bins", "n_z_bins"})
  IN IF error # "" THEN Raise(obj, error) ELSE
  LET sr == Get(obj.sorted_reflections)
      n == Len(sr.rows)
      ndbins == Get(Get(obj.binning_parameters).n_d_bins)
      nzbins == Get(Get(obj.binning_parameters).n_z_bins)
      z == Column(sr, "z_value")
      res == [i \in 1..n |-> InvDSq(sr.rows[i]["d"])]
      zmax == SeqMax(z) + 1
      zmin == SeqMin(z) - 1
      resmax == SeqMax(res) + 1
      resmin == SeqMin(res) - 1
      normalised_res_values ==
        [i \in 1..n |-> <<(res[i] - resmin) * ndbins, resmax - resmin>>]
      lowest_res_value == SeqMin(Floors(normalised_res_values)) - 1
      n_res_parameters ==
        (SeqMax(Floors(normalised_res_values)) + 2) - lowest_res_value + 1
      normalised_time_values ==
        [i \in 1..n |-> <<(z[i] - zmin) * nzbins, zmax - zmin>>]
      lowest_time_value == SeqMin(Floors(normalised_time_values)) - 1
      n_time_parameters ==
        (SeqMax(Floors(normalised_time_values)) + 2) - lowest_time_value + 1
      sr2 == SetColumn(SetColumn(sr, "normalised_res_values", normalised_res_values),
                       "normalised_time_values", normalised_time_values)
      g == SmoothScaleFactor(InitialValue(obj),
                             <<n_res_parameters, n_time_parameters>>,
                             <<lowest_res_value, lowest_time_value>>)
  IN AssignComponent([obj EXCEPT !.sorted_reflections = Some(sr2)], "g_decay",
       set_normalised_values(g,
         Coords(sr2, <<"normalised_res_values", "normalised_time_values">>)))

bin_reflections_modulation(obj) ==
  LET error == ReadError(obj, {"x_value", "y_value"}, {"n_detector_bins"})
  IN IF error # "" THEN Raise(obj, error) ELSE
  LET sr == Get(obj.sorted_reflections)
      n == Len(sr.rows)
      nxbins == Get(Get(obj.binning_parameters).n_detector_bins)
      nybins == nxbins
      xvalues == Column(sr, "x_value")
      yvalues == Column(sr, "y_value")
      xmax == SeqMax(xvalues) + 1
      xmin == SeqMin(xvalues) - 1
      ymax == SeqMax(yvalues) + 1
      ymin == SeqMin(yvalues) - 1
      normalised_x_values ==
        [i \in 1..n |-> <<(xvalues[i] - xmin) * nxbins, xmax - xmin>>]
      normalised_y_values ==
        [i \in 1..n |-> <<(yvalues[i] - ymin) * nybins, ymax - ymin>>]
      lowest_x_parameter_value == SeqMin(Floors(normalised_x_values)) - 1
      n_x_parameters ==
        (SeqMax(Floors(normalised_x_values)) + 2) - lowest_x_parameter_value + 1
      lowest_y_parameter_value == SeqMin(Floors(normalised_y_values)) - 1
      n_y_parameters ==
        (SeqMax(Floors(normalised_y_values)) + 2) - lowest_y_parameter_value + 1
      sr2 == SetColumn(SetColumn(sr, "normalised_x_values", normalised_x_values),
                       "normalised_y_values", normalised_y_values)
      g == SmoothScaleFactor(InitialValue(obj),
                             <<n_x_parameters, n_y_parameters>>,
                             <<lowest_x_parameter_value, lowest_y_parameter_value>>)
  IN AssignComponent([obj EXCEPT !.sorted_reflections = Some(sr2)], "g_modulation",
       set_normalised_values(g,
         Coords(sr2, <<"normalised_x_values", "normalised_y_values">>)))

bin_reflections_absorption(obj) ==
  LET error == ReadError(obj, {"x_value", "y_value"}, {})
  IN IF error # "" THEN Raise(obj, error) ELSE
  LET sr == Get(obj.sorted_reflections)
      n == Len(sr.rows)
      nxbins == 4
      nybins == 4
      xvalues == Column(sr, "x_value")
      yvalues == Column(sr, "y_value")
      xmax == SeqMax(xvalues) + 1
      xmin == SeqMin(xvalues) - 1
      ymax == SeqMax(yvalues) + 1
      ymin == SeqMin(yvalues) - 1
      normalised_x_abs_values ==
        [i \in 1..n |-> <<(xvalues[i] - xmin) * nxbins, xmax - xmin>>]
      normalised_y_abs_values ==
        [i \in 1..n |-> <<(yvalues[i] - ymin) * nybins, ymax - ymin>>]
      lowest_x_parameter_value == SeqMin(Floors(normalised_x_abs_values))
      n_x_parameters ==
        (SeqMax(Floors(normalised_x_abs_values)) + 1) - lowest_x_parameter_value + 1
      lowest_y_parameter_value == SeqMin(Floors(normalised_y_abs_values))
      n_y_parameters ==
        (SeqMax(Floors(normalised_y_abs_values)) + 1) - lowest_y_parameter_value + 1
      sr2 == SetColumn(SetColumn(sr, "normalised_x_abs_values", normalised_x_abs_values),
                       "normalised_y_abs_values", normalised_y_abs_values)
  IN \* the two columns are set before normalised_time_values is read
     IF "normalised_time_values" \notin sr2.keys
     THEN Raise([obj EXCEPT !.sorted_reflections = Some(sr2)], "KeyError")
     ELSE
     LET time == Column(sr2, "normalised_time_values")
         lowest_parameter_value == SeqMin(Floors(time)) - 0
         n_time_parameters ==
           (SeqMax(Floors(time)) + 1) - lowest_parameter_value + 1
         g == SmoothScaleFactor(InitialValue(obj),
                <<n_x_parameters, n_y_parameters, n_time_parameters>>,
                <<lowest_x_parameter_value, lowest_y_parameter_value,
                  lowest_parameter_value>>)
     IN AssignComponent([obj EXCEPT !.sorted_reflections = Some(sr2)],
          "g_absorption",
          set_normalised_values(g,
            Coords(sr2, <<"normalised_x_abs_values", "normalised_y_abs_values",
                          "normalised_time_values">>)))

\* the largest s with s * s <= v, by bisection
RECURSIVE RootBetween(_, _, _)
RootBetween(v, lo, hi) ==
  IF lo = hi THEN lo
  ELSE LET mid == (lo + hi + 1) \div 2
       IN IF mid * mid <= v THEN RootBetween(v, mid, hi)
          ELSE RootBetween(v, lo, mid - 1)

Root(v) == RootBetween(v, 0, IF v < 40000 THEN v ELSE 40000)

\* one flag per value: lower_limit < variable <= upper_limit; nan compares
\* false
select_variables_in_range(variable_array, lower_limit, upper_limit) ==
  [i \in 1..Len(variable_array) |->
     /\ variable_array[i] # None
     /\ lower_limit < Get(variable_array[i])
     /\ Get(variable_array[i]) <= upper_limit]

\* arccos(yrel / radial), reflected to 2 pi - angle where xrel < 0, in units
\* of pi / 8: even on the directions that are multiples of pi / 4, odd in
\* between; 0 / 0 is nan
AngularValue(xrel, yrel) ==
  LET ax == IF xrel < 0 THEN -xrel ELSE xrel
      ay == IF yrel < 0 THEN -yrel ELSE yrel
      arccos == IF ax = 0 THEN (IF yrel > 0 THEN 0 ELSE 8)
                ELSE IF yrel > 0
                     THEN (IF ax < ay THEN 1 ELSE IF ax = ay THEN 2 ELSE 3)
                ELSE IF yrel = 0 THEN 4
                ELSE (IF ax > ay THEN 5 ELSE IF ax = ay THEN 6 ELSE 7)
  IN IF xrel = 0 /\ yrel = 0 THEN None
     ELSE IF xrel < 0 THEN Some(16 - arccos) ELSE Some(arccos)

angular_bins == <<-1, 2, 4, 6, 8, 10, 12, 14, 16>>

\* [-0.0001, divider / 3, 2 divider / 3, half the diagonal + 5] in fixed point
radial_bins ==
  LET x_center == (Experiments.image_size[1] * Milli) \div 2
      y_center == (Experiments.image_size[2] * Milli) \div 2
      radial_divider == IF x_center > y_center THEN x_center ELSE y_center
      diagonal == Root(Experiments.image_size[1] * Experiments.image_size[1]
                         * Milli * Milli
                       + Experiments.image_size[2] * Experiments.image_size[2]
                         * Milli * Milli)
  IN <<-1, radial_divider \div 3, (2 * radial_divider) \div 3,
       diagonal \div 2 + 5 * Milli>>

\* the angular/radial bin of each reflection, -1 where none takes it
firstbin_index(sr) ==
  LET n == Len(sr.rows)
      xrel == [i \in 1..n |-> sr.rows[i]["x_value"]
                                - (Experiments.image_size[1] * Milli) \div 2]
      yrel == [i \in 1..n |-> sr.rows[i]["y_value"]
                                - (Experiments.image_size[2] * Milli) \div 2]
      radial_values ==
        [i \in 1..n |-> Some(Root(xrel[i] * xrel[i] + yrel[i] * yrel[i]))]
      angular_values == [i \in 1..n |-> AngularValue(xrel[i], yrel[i])]
      Selected(k) ==
        {b \in (0..(Len(angular_bins) - 2)) \X (0..(Len(radial_bins) - 2)) :
           /\ select_variables_in_range(angular_values, angular_bins[b[1] + 1],
                                        angular_bins[b[1] + 2])[k]
           /\ select_variables_in_range(radial_values, radial_bins[b[2] + 1],
                                        radial_bins[b[2] + 2])[k]}
  IN [k \in 1..n |->
        IF Selected(k) = {} THEN -1
        ELSE LET b == CHOOSE c \in Selected(k) : TRUE
             IN b[1] * (Len(radial_bins) - 1) + b[2]]

\* the z bin of each reflection, -1 where none takes it
secondbin_index(sr, z_bins, nzbins) ==
  LET z == [i \in 1..Len(sr.rows) |-> Some(sr.rows[i]["z_value"])]
      Selected(k) ==
        {i \in 0..(nzbins - 1) :
           select_variables_in_range(z, z_bins[i + 1], z_bins[i + 2])[k]}
  IN [k \in 1..Len(sr.rows) |->
        IF Selected(k) = {} THEN -1 ELSE CHOOSE i \in Selected(k) : TRUE]

\* self.bin_boundaries is read on line 480 and assigned nowhere
bin_reflections_absorption_radially(obj) ==
  IF obj.binning_parameters = None THEN Raise(obj, "TypeError")
  ELSE IF obj.bin_boundaries = None THEN Raise(obj, "AttributeError")
  ELSE
  LET error == ReadError(obj, {"x_value", "y_value", "z_value"}, {})
  IN IF error \in {"TypeError", "KeyError"} THEN Raise(obj, error)
     ELSE IF Get(obj.binning_parameters).n_z_bins = None
     THEN Raise(obj, "TypeError")
     ELSE
  LET sr == Get(obj.sorted_reflections)
      nzbins == Get(Get(obj.binning_parameters).n_z_bins)
      z_bins == Get(obj.bin_boundaries)["z_value"]
      first == firstbin_index(sr)
      second == secondbin_index(sr, z_bins, nzbins)
      n_absorption_bins == (Len(angular_bins) - 1) * (Len(radial_bins) - 1)
  IN IF \E i \in 1..Len(sr.rows) : first[i] = -1 \/ second[i] = -1
     THEN Raise(obj, "ValueError")
     ELSE [obj EXCEPT
             !.sorted_reflections =
               Some(SetColumn(sr, "a_bin_index",
                      [i \in 1..Len(sr.rows) |->
                         first[i] + second[i] * n_absorption_bins])),
             !.n_absorption_bins = Some(n_absorption_bins),
             !.g_absorption =
               Some([initial |-> InitialValue(obj),
                     parameters |-> [k \in 1..(n_absorption_bins * nzbins) |->
                                       InitialValue(obj)]])]

\* a statement runs unless an exception is already propagating
XDS_initialise_scale_factors(obj) ==
  LET s1 == bin_reflections_decay(obj)
      s2 == IF s1.raised # "" THEN s1 ELSE bin_reflections_absorption(s1)
  IN IF s2.raised # "" THEN s2 ELSE bin_reflections_modulation(s2)

(***************************************************************************)
(* XDS_Data_Manager: construction after the base class, and the methods    *)
(***************************************************************************)
XDS_attributes(obj) ==
  [obj EXCEPT
     !.binning_parameters =
       Some([n_d_bins |-> Get(obj.scaling_options).n_d_bins,
             n_z_bins |-> Get(obj.scaling_options).n_z_bins,
             n_absorption_positions |-> Some(5),
             n_detector_bins |-> Get(obj.scaling_options).n_detector_bins])]

\* __init__ from the Wilson outlier test to the component dict
XDS_extract(obj) ==
  LET sr0 == Get(obj.sorted_reflections)
      sr == SetColumn(sr0, "wilson_outlier_flag", calculate_wilson_outliers(sr0))
      extracted == extract_reflections_for_scaling(Get(obj.scaling_options), sr)
      rfs == extracted[1]
      Ih_table == single_Ih_table(rfs, extracted[2])
  IN IF Ih_table.raised # ""
     THEN Raise([obj EXCEPT !.sorted_reflections = Some(sr),
                            !.reflections_for_scaling = Some(rfs),
                            !.weights_for_scaling = Some(extracted[2])],
                Ih_table.raised)
     ELSE
     [obj EXCEPT
        !.sorted_reflections = Some(sr),
        !.reflections_for_scaling = Some(rfs),
        !.weights_for_scaling = Some(extracted[2]),
        !.Ih_table = Some(Ih_table),
        !.g_modulation = Some(set_normalised_values(Get(obj.g_modulation),
            Coords(rfs, <<"normalised_x_values", "normalised_y_values">>))),
        !.g_decay = Some(set_normalised_values(Get(obj.g_decay),
            Coords(rfs, <<"normalised_res_values", "normalised_time_values">>))),
        !.g_absorption = Some(set_normalised_values(Get(obj.g_absorption),
            Coords(rfs, <<"normalised_x_abs_values", "normalised_y_abs_values",
                          "normalised_time_values">>))),
        !.g_parameterisation =
            Some([name \in ComponentNames |-> None])]

SameLengths(arrays) ==
  \A i, j \in 1..Len(arrays) : Len(arrays[i]) = Len(arrays[j])

\* np.prod(np.array(arrays), axis=0)
ProdArrays(arrays) ==
  [i \in 1..Len(arrays[1]) |-> Product([k \in 1..Len(arrays) |-> arrays[k][i]])]

\* np.sum(np.array(arrays), axis=0)
SumArrays(arrays) ==
  [i \in 1..Len(arrays[1]) |-> SeqSum([k \in 1..Len(arrays) |-> arrays[k][i]])]

\* ScalesOf without the exclusion of the active component
ScalesOf_all_components(obj, names) ==
  LET RECURSIVE list(_)
      list(ns) ==
        IF ns = {} THEN <<>>
        ELSE LET name == CHOOSE x \in ns : TRUE
             IN <<get_scales_of_reflections(Registered(obj, name))>>
                  \o list(ns \ {name})
  IN list(ComponentNames)

\* the scales of the components the dict holds under the names given
ScalesOf(obj, names) ==
  LET RECURSIVE list(_)
      list(ns) ==
        IF ns = {} THEN <<>>
        ELSE LET name == CHOOSE x \in ns : TRUE
             IN <<get_scales_of_reflections(Registered(obj, name))>>
                  \o list(ns \ {name})
  IN list(names)

XDS_set_up_minimisation(obj, param_name) ==
  LET found == param_name \in ComponentNames
      s1 == IF found
            THEN [obj EXCEPT
                    !.n_active_params =
                      Some(Len(get_scale_factors(Registered(obj, param_name)))),
                    !.active_parameterisation = Some(param_name)]
            ELSE obj
      constant_g_values == ScalesOf(obj, ComponentNames \ {param_name})
      parameterization == Get(obj.scaling_options).parameterization
      s2 == IF parameterization = "standard"
            THEN IF SameLengths(constant_g_values)
                 THEN [s1 EXCEPT !.constant_g_values =
                                   Some(ProdArrays(constant_g_values))]
                 ELSE Raise(s1, "ValueError")
            ELSE IF parameterization = "log"
            THEN IF SameLengths(constant_g_values)
                 THEN [s1 EXCEPT !.constant_g_values =
                                   Some(SumArrays(constant_g_values))]
                 ELSE Raise(s1, "ValueError")
            ELSE s1
  IN IF s2.raised # "" THEN s2
     ELSE IF found
     THEN [s2 EXCEPT !.returned =
                       Some(get_scale_factors(Registered(obj, param_name)))]
     ELSE Raise(s2, "UnboundLocalError")

\* basis_functions.xds_basis_function / xds_basis_function_log:
\* [obj, scales, derivatives]; the derivative of a row is <<node, value>>
XDS_get_basis_function(obj, parameters) ==
  IF obj.active_parameterisation = None
  THEN [obj |-> Raise(obj, "KeyError"), scales |-> <<>>, derivatives |-> <<>>]
  ELSE
  LET name == Get(obj.active_parameterisation)
      g == set_scale_factors(Registered(obj, name), parameters)
      s1 == SetRegistered(obj, name, g)
      log == Get(obj.scaling_options).parameterization = "log"
  IN IF Len(parameters) # Product(g.shape)
     THEN [obj |-> Raise(obj, "ValueError"), scales |-> <<>>, derivatives |-> <<>>]
     ELSE IF obj.constant_g_values = None
     THEN [obj |-> Raise(s1, "TypeError"), scales |-> <<>>, derivatives |-> <<>>]
     ELSE IF Len(Get(obj.constant_g_values)) # Len(g.normalised_values)
     THEN [obj |-> Raise(s1, "RuntimeError"), scales |-> <<>>, derivatives |-> <<>>]
     ELSE
     LET gx == calculate_smooth_scales(g)
         constant == Get(obj.constant_g_values)
         scales == [i \in 1..Len(gx) |->
                      IF log THEN Exp(gx[i] + constant[i])
                      ELSE gx[i] * constant[i]]
         derivatives ==
           [i \in 1..Len(gx) |->
              <<NodeIndex(g.origin, g.shape, g.normalised_values[i]),
                IF log THEN scales[i] ELSE constant[i]>>]
     IN [obj |-> s1, scales |-> scales, derivatives |-> derivatives]

XDS_expand_scales_to_all_reflections(obj) ==
  LET sr == Get(obj.sorted_reflections)
      Has(columns) == columns \subseteq sr.keys
      mod_columns == <<"normalised_x_values", "normalised_y_values">>
      decay_columns == <<"normalised_res_values", "normalised_time_values">>
      abs_columns == <<"normalised_x_abs_values", "normalised_y_abs_values",
                       "normalised_time_values">>
  IN IF ~Has(Range(mod_columns)) THEN Raise(obj, "KeyError") ELSE
  LET g_modulation == set_normalised_values(Get(obj.g_modulation),
                                            Coords(sr, mod_columns))
      gscalevalues == calculate_smooth_scales(g_modulation)
      s1 == [obj EXCEPT !.g_modulation = Some(g_modulation)]
  IN IF ~Has(Range(decay_columns)) THEN Raise(s1, "KeyError") ELSE
  LET g_decay == set_normalised_values(Get(obj.g_decay), Coords(sr, decay_columns))
      gdecayvalues == calculate_smooth_scales(g_decay)
      s2 == [s1 EXCEPT !.g_decay = Some(g_decay)]
  IN IF ~Has(Range(abs_columns)) THEN Raise(s2, "KeyError") ELSE
  LET g_absorption == set_normalised_values(Get(obj.g_absorption),
                                            Coords(sr, abs_columns))
      gabsvalues == calculate_smooth_scales(g_absorption)
      s3 == [s2 EXCEPT !.g_absorption = Some(g_absorption)]
      inverse_scale_factor ==
        IF Get(obj.scaling_options).parameterization = "log"
        THEN [i \in 1..Len(sr.rows) |->
                Exp(gscalevalues[i] + gdecayvalues[i] + gabsvalues[i])]
        ELSE [i \in 1..Len(sr.rows) |->
                gscalevalues[i] * gdecayvalues[i] * gabsvalues[i]]
      sr1 == SetColumn(sr, "inverse_scale_factor", inverse_scale_factor)
      s4 == [s3 EXCEPT !.sorted_reflections = Some(sr1)]
  IN IF ~({"intensity", "variance", "d", "asu_miller_index"} \subseteq sr.keys)
     THEN Raise(s4, "KeyError") ELSE
  LET weights == update_weights_for_scaling(Get(obj.scaling_options), sr1)
      Ih_table_sorted_refl == single_Ih_table(sr1, weights)
  IN IF Ih_table_sorted_refl.raised # ""
     THEN Raise([s4 EXCEPT !.weights_for_scaling = Some(weights)],
                Ih_table_sorted_refl.raised)
     ELSE
     [s4 EXCEPT
        !.weights_for_scaling = Some(weights),
        !.h_index_counter_array = Some(Ih_table_sorted_refl.h_index_counter_array),
        !.h_index_cumulative_array =
          Some(Ih_table_sorted_refl.h_index_cumulative_array),
        !.sorted_reflections =
          Some(SetColumn(sr1, "Ih_values", Ih_table_sorted_refl.Ih_values))]

\* the columns of keys that are not in keep, as a sequence
RECURSIVE KeysToDelete(_, _)
KeysToDelete(keys, keep) ==
  IF keys = {} THEN <<>>
  ELSE LET key == CHOOSE k \in keys : TRUE
       IN (IF key \in keep THEN <<>> ELSE <<key>>)
            \o KeysToDelete(keys \ {key}, keep)

XDS_added_columns ==
  <<"l_bin_index", "a_bin_index", "xy_bin_index", "h_index",
    "asu_miller_index", "normalised_y_values", "normalised_x_values",
    "normalised_y_abs_values", "normalised_x_abs_values",
    "normalised_time_values", "normalised_res_values", "wilson_outlier_flag",
    "centric_flag">>

\* del table[key] erases the column, and erases nothing when there is none
XDS_clean_reflection_table(obj) ==
  LET initial_keys == obj.initial_keys \cup {"inverse_scale_factor"}
      sr1 == DelColumns(Get(obj.sorted_reflections),
                        KeysToDelete(Get(obj.reflection_table).keys, initial_keys))
  IN [obj EXCEPT !.initial_keys = initial_keys,
                 !.sorted_reflections = Some(DelColumns(sr1, XDS_added_columns))]

(***************************************************************************)
(* aimless_Data_Manager                                                    *)
(***************************************************************************)
aimless_attributes(obj) ==
  [obj EXCEPT
     !.binning_parameters =
       Some([n_scale_bins |-> None, n_B_bins |-> None, lmax |-> Some(4),
             n_d_bins |-> Get(obj.scaling_options).n_d_bins]),
     !.n_active_params = Some(0),
     !.active_parameters = Some(<<>>)]

\* ((z * width) - (osc_range[0] - 0.001)) / (15.0 + 0.001)
NormalisedRotation(z) ==
  <<z * Experiments.oscillation[2]
      - (Experiments.oscillation_range[1] * Milli - 1),
    15 * Milli + 1>>

initialise_scale_term(obj) ==
  LET error == ReadError(obj, {"z_value"}, {})
  IN IF error # "" THEN Raise(obj, error) ELSE
  LET sr == Get(obj.sorted_reflections)
      normalised_rotation_angle ==
        [i \in 1..Len(sr.rows) |-> NormalisedRotation(sr.rows[i]["z_value"])]
      highest_parameter_value == SeqMax(Floors(normalised_rotation_angle)) + 3
      lowest_parameter_value == SeqMin(Floors(normalised_rotation_angle)) - 2
      n_scale_parameters == highest_parameter_value - lowest_parameter_value + 1
      sr1 == SetColumn(sr, "normalised_rotation_angle", normalised_rotation_angle)
      g == SmoothScaleFactor(1, <<n_scale_parameters>>, <<lowest_parameter_value>>)
  IN [obj EXCEPT
        !.sorted_reflections = Some(sr1),
        !.g_scale = Some(set_normalised_values(g,
                      Coords(sr1, <<"normalised_rotation_angle">>))),
        !.n_active_params = Some(Get(obj.n_active_params) + n_scale_parameters),
        !.n_g_scale_params = Some(n_scale_parameters)]

initialise_decay_term(obj) ==
  LET error == ReadError(obj, {"z_value"}, {})
  IN IF error # "" THEN Raise(obj, error) ELSE
  LET sr == Get(obj.sorted_reflections)
      normalised_time_values ==
        [i \in 1..Len(sr.rows) |-> NormalisedRotation(sr.rows[i]["z_value"])]
      highest_parameter_value == SeqMax(Floors(normalised_time_values)) + 3
      lowest_parameter_value == SeqMin(Floors(normalised_time_values)) - 2
      n_decay_parameters == highest_parameter_value - lowest_parameter_value + 1
      sr1 == SetColumn(sr, "normalised_time_values", normalised_time_values)
      g == SmoothScaleFactor(0, <<n_decay_parameters>>, <<lowest_parameter_value>>)
  IN [obj EXCEPT
        !.sorted_reflections = Some(sr1),
        !.g_decay = Some(set_normalised_values(g,
                      Coords(sr1, <<"normalised_time_values">>))),
        !.n_active_params = Some(Get(obj.n_active_params) + n_decay_parameters),
        !.n_g_decay_params = Some(n_decay_parameters)]

aimless_extend_active_parameters(obj) ==
  [obj EXCEPT !.active_parameters =
     Some(Get(obj.active_parameters)
            \o get_scale_factors(Get(obj.g_scale))
            \o get_scale_factors(Get(obj.g_decay)))]

aimless_initialise_scale_factors(obj) ==
  LET s1 == initialise_scale_term(obj)
      s2 == IF s1.raised # "" THEN s1 ELSE initialise_decay_term(s1)
  IN IF s2.raised # "" THEN s2 ELSE aimless_extend_active_parameters(s2)

\* __init__ from the Wilson outlier test on
aimless_extract(obj) ==
  LET sr0 == Get(obj.sorted_reflections)
      sr == SetColumn(sr0, "wilson_outlier_flag", calculate_wilson_outliers(sr0))
      extracted == extract_reflections_for_scaling(Get(obj.scaling_options), sr)
      rfs == extracted[1]
  IN [obj EXCEPT
        !.sorted_reflections = Some(sr),
        !.reflections_for_scaling = Some(rfs),
        !.weights_for_scaling = Some(extracted[2]),
        !.g_scale = Some(set_normalised_values(Get(obj.g_scale),
            Coords(rfs, <<"normalised_rotation_angle">>))),
        !.g_decay = Some(set_normalised_values(Get(obj.g_decay),
            Coords(rfs, <<"normalised_time_values">>)))]

aimless_set_up_minimisation(obj, param_name) ==
  [obj EXCEPT !.returned = Some(Get(obj.active_parameters))]

\* exp(B / (2 d^2))
DecayFactor(b, d) == Exp(b \div (2 * d * d))

\* basis_functions.aimless_basis_function: the scale parameters come first
aimless_get_basis_function(obj, parameters) ==
  LET n_scale == Get(obj.n_g_scale_params)
      n_decay == Get(obj.n_g_decay_params)
  IN IF Len(parameters) # n_scale + n_decay
     THEN [obj |-> Raise(obj, "ValueError"), scales |-> <<>>, derivatives |-> <<>>]
     ELSE
     LET g_scale == set_scale_factors(Get(obj.g_scale),
                                      SubSeq(parameters, 1, n_scale))
         g_decay == set_scale_factors(Get(obj.g_decay),
                      SubSeq(parameters, n_scale + 1, n_scale + n_decay))
         s1 == [obj EXCEPT !.g_scale = Some(g_scale), !.g_decay = Some(g_decay)]
         d == Column(Get(obj.reflections_for_scaling), "d")
         gs == calculate_smooth_scales(g_scale)
         gb == calculate_smooth_scales(g_decay)
     IN IF Len(gs) # Len(d) \/ Len(gb) # Len(d)
        THEN [obj |-> Raise(s1, "RuntimeError"), scales |-> <<>>,
              derivatives |-> <<>>]
        ELSE [obj |-> s1,
              scales |-> [i \in 1..Len(d) |-> gs[i] * DecayFactor(gb[i], d[i])],
              derivatives |->
                [i \in 1..Len(d) |->
                   <<NodeIndex(g_scale.origin, g_scale.shape, g_scale.normalised_values[i]),
                     DecayFactor(gb[i], d[i])>>]]

aimless_expand_scales_to_all_reflections(obj) ==
  LET sr == Get(obj.sorted_reflections)
  IN IF "normalised_rotation_angle" \notin sr.keys THEN Raise(obj, "KeyError") ELSE
  LET g_scale == set_normalised_values(Get(obj.g_scale),
                   Coords(sr, <<"normalised_rotation_angle">>))
      angular_scale_factor == calculate_smooth_scales(g_scale)
      sr1 == SetColumn(sr, "angular_scale_factor", angular_scale_factor)
      s1 == [obj EXCEPT !.g_scale = Some(g_scale),
                        !.sorted_reflections = Some(sr1)]
  IN IF "normalised_time_values" \notin sr.keys THEN Raise(s1, "KeyError") ELSE
  LET g_decay == set_normalised_values(Get(obj.g_decay),
                   Coords(sr, <<"normalised_time_values">>))
      b_factors == calculate_smooth_scales(g_decay)
      s2 == [s1 EXCEPT !.g_decay = Some(g_decay)]
  IN IF "d" \notin sr.keys THEN Raise(s2, "KeyError") ELSE
  LET decay_factor ==
        [i \in 1..Len(sr.rows) |-> DecayFactor(b_factors[i], sr.rows[i]["d"])]
      sr2 == SetColumn(sr1, "decay_factor", decay_factor)
      sr3 == SetColumn(sr2, "inverse_scale_factor",
               [i \in 1..Len(sr.rows) |-> angular_scale_factor[i] * decay_factor[i]])
      s3 == [s2 EXCEPT !.sorted_reflections = Some(sr3)]
  IN IF ~({"intensity", "variance"} \subseteq sr.keys) THEN Raise(s3, "KeyError")
     ELSE
     \* self.assign_h_index is not a method of the class: the call raises
     Raise([s3 EXCEPT !.weights_for_scaling =
                        Some(update_weights_for_scaling(Get(obj.scaling_options),
                                                        sr3))],
           "AttributeError")

aimless_added_columns ==
  <<"Ih_values", "h_index", "asu_miller_index", "decay_factor",
    "angular_scale_factor", "normalised_rotation_angle",
    "normalised_time_values", "wilson_outlier_flag", "centric_flag">>

aimless_clean_reflection_table(obj) ==
  LET initial_keys == obj.initial_keys \cup {"inverse_scale_factor"}
      sr1 == DelColumns(Get(obj.sorted_reflections),
                        KeysToDelete(Get(obj.reflection_table).keys, initial_keys))
  IN [obj EXCEPT !.initial_keys = initial_keys,
                 !.sorted_reflections = Some(DelColumns(sr1, aimless_added_columns))]

(***************************************************************************)
(* Data_Manager.update_for_minimisation, with the variant's basis function *)
(***************************************************************************)
get_basis_function(v, obj, parameters) ==
  IF v = "XDS" THEN XDS_get_basis_function(obj, parameters)
  ELSE aimless_get_basis_function(obj, parameters)

\* a faulty update that multiplies the new scales into the ones already held
update_for_minimisation_accumulating(v, obj, parameters) ==
  LET basis_fn == get_basis_function(v, obj, parameters)
      s1 == basis_fn.obj
      rfs == Get(s1.reflections_for_scaling)
      held == Column(rfs, "inverse_scale_factor")
  IN IF s1.raised # "" THEN s1
     ELSE IF Len(basis_fn.scales) # Len(rfs.rows) THEN Raise(s1, "RuntimeError")
     ELSE
     LET scales == [i \in 1..Len(held) |-> held[i] * basis_fn.scales[i]]
         s2 == [s1 EXCEPT
                  !.reflections_for_scaling =
                    Some(SetColumn(rfs, "inverse_scale_factor", scales)),
                  !.active_derivatives = Some(basis_fn.derivatives)]
     IN IF s2.Ih_table = None THEN Raise(s2, "AttributeError")
        ELSE [s2 EXCEPT !.Ih_table =
                Some(calc_Ih(update_scale_factors(Get(s2.Ih_table), scales)))]

\* a faulty update that pushes the scales into the Ih table and leaves its Ih
update_for_minimisation_stale_Ih(v, obj, parameters) ==
  LET basis_fn == get_basis_function(v, obj, parameters)
      s1 == basis_fn.obj
      rfs == Get(s1.reflections_for_scaling)
  IN IF s1.raised # "" THEN s1
     ELSE IF Len(basis_fn.scales) # Len(rfs.rows) THEN Raise(s1, "RuntimeError")
     ELSE
     LET s2 == [s1 EXCEPT
                  !.reflections_for_scaling =
                    Some(SetColumn(rfs, "inverse_scale_factor", basis_fn.scales)),
                  !.active_derivatives = Some(basis_fn.derivatives)]
     IN IF s2.Ih_table = None THEN Raise(s2, "AttributeError")
        ELSE [s2 EXCEPT !.Ih_table =
                Some(update_scale_factors(Get(s2.Ih_table), basis_fn.scales))]

update_for_minimisation(v, obj, parameters) ==
  LET basis_fn == get_basis_function(v, obj, parameters)
      s1 == basis_fn.obj
      rfs == Get(s1.reflections_for_scaling)
  IN IF s1.raised # "" THEN s1
     ELSE IF Len(basis_fn.scales) # Len(rfs.rows) THEN Raise(s1, "RuntimeError")
     ELSE
     LET s2 == [s1 EXCEPT
                  !.reflections_for_scaling =
                    Some(SetColumn(rfs, "inverse_scale_factor", basis_fn.scales)),
                  !.active_derivatives = Some(basis_fn.derivatives)]
     IN IF s2.Ih_table = None THEN Raise(s2, "AttributeError")
        ELSE LET Ih_table == calc_Ih(update_scale_factors(Get(s2.Ih_table),
                                                          basis_fn.scales))
             IN [s2 EXCEPT !.Ih_table = Some([Ih_table EXCEPT !.raised = ""]),
                           !.raised = Ih_table.raised]

(***************************************************************************)
(* The state machine: construction in its three stages, then at most       *)
(* MaxCalls calls of the methods, in the order of the life cycle or with   *)
(* one last call outside it.                                               *)
(***************************************************************************)
Variants == {"aimless", "XDS"}

Parameterizations == {"standard", "log", "other"}

Init ==
  /\ variant \in Variants
  /\ reflections \in InputTables
  /\ scaling_options \in
       {ScalingOptions(p) : p \in IF variant = "XDS" THEN Parameterizations
                                  ELSE {"standard"}}
       \cup (IF variant = "XDS"
             THEN {ScalingOptionsWithout(key) : key \in RequiredBinningParameters}
             ELSE {})
  /\ self = NewObject
  /\ pc = "new"
  /\ call = [op |-> "", arg |-> <<>>, again |-> FALSE]
  /\ ncalls = 0
  /\ ca = [pc |-> "unused"]
  /\ sc = [pc |-> "unused"]
  /\ ts = [pc |-> "unused"]
  /\ cr = [pc |-> "unused"]

\* Data_Manager.__init__ and the subclass's attributes
Construct ==
  /\ pc = "new"
  /\ \E perm \in SortChoices(reflections) :
       LET base == Data_Manager_init(self, reflections, scaling_options, perm)
       IN self' = IF variant = "XDS" THEN XDS_attributes(base)
                  ELSE aimless_attributes(base)
  /\ pc' = "INITIALIZED"
  /\ UNCHANGED <<variant, reflections, scaling_options, call, ncalls, others>>

\* __init__: self.initialise_scale_factors(...)
ConstructBinning ==
  /\ pc = "INITIALIZED"
  /\ self' = IF variant = "XDS" THEN XDS_initialise_scale_factors(self)
             ELSE aimless_initialise_scale_factors(self)
  /\ pc' = IF self'.raised = "" THEN "BINNED" ELSE "failed"
  /\ UNCHANGED <<variant, reflections, scaling_options, call, ncalls, others>>

\* __init__: the rest, to its return
ConstructExtract ==
  /\ pc = "BINNED"
  /\ self' = IF variant = "XDS" THEN XDS_extract(self) ELSE aimless_extract(self)
  /\ pc' = IF self'.raised = "" THEN "EXTRACTED" ELSE "failed"
  /\ UNCHANGED <<variant, reflections, scaling_options, call, ncalls, others>>

Entered(obj) == [obj EXCEPT !.raised = "", !.returned = None]

Constructed == pc \in {"EXTRACTED", "ITERATING", "EXPANDED", "CLEANED", "unsupported"}

\* where the caller stands in the life cycle once it has made the call op
Lifecycle(op) ==
  IF op \in {"set_up_minimisation", "update_for_minimisation"}
     /\ pc \in {"EXTRACTED", "ITERATING"}
  THEN "ITERATING"
  ELSE IF op = "expand_scales_to_all_reflections"
          /\ pc \in {"EXTRACTED", "ITERATING"}
  THEN "EXPANDED"
  ELSE IF op = "clean_reflection_table" /\ pc = "EXPANDED"
  THEN "CLEANED"
  ELSE "unsupported"

\* again: the call repeats the call before it, arguments and all
Called(op, arg) ==
  /\ call' = [op |-> op, arg |-> arg,
              again |-> call.op = op /\ call.arg = arg]
  /\ ncalls' = ncalls + 1
  /\ pc' = Lifecycle(op)
  /\ UNCHANGED <<variant, reflections, scaling_options, others>>

\* the caller makes at most MaxCalls calls, and none after a call that left
\* the life cycle
CanCall == Constructed /\ pc # "unsupported" /\ ncalls < MaxCalls

\* the parameter vectors the minimiser hands over
ParameterChoices ==
  IF variant = "XDS"
  THEN IF self.active_parameterisation = None THEN {<<1>>}
       ELSE LET g == Registered(self, Get(self.active_parameterisation))
                n == Len(g.parameters)
            IN {[k \in 1..n |-> g.initial + 1]}
               \cup {[k \in 1..n |->
                        IF k = NodeIndex(g.origin, g.shape, g.normalised_values[i])
                        THEN g.initial + 1 ELSE g.initial] :
                     i \in 1..Len(g.normalised_values)}
  ELSE LET n_scale == Get(self.n_g_scale_params)
           n_decay == Get(self.n_g_decay_params)
       IN {[k \in 1..(n_scale + n_decay) |-> IF k <= n_scale THEN 2 ELSE 0],
           [k \in 1..(n_scale + n_decay) |-> IF k <= n_scale THEN 1 ELSE 8]}

set_up_minimisation(v, obj, param_name) ==
  IF v = "XDS" THEN XDS_set_up_minimisation(obj, param_name)
  ELSE aimless_set_up_minimisation(obj, param_name)

expand_scales_to_all_reflections(v, obj) ==
  IF v = "XDS" THEN XDS_expand_scales_to_all_reflections(obj)
  ELSE aimless_expand_scales_to_all_reflections(obj)

clean_reflection_table(v, obj) ==
  IF v = "XDS" THEN XDS_clean_reflection_table(obj)
  ELSE aimless_clean_reflection_table(obj)

CallSetUpMinimisation ==
  /\ CanCall
  /\ \E param_name \in (IF variant = "XDS" THEN ComponentNames ELSE {}) \cup {"g_scale"} :
       /\ self' = set_up_minimisation(variant, Entered(self), param_name)
       /\ Called("set_up_minimisation", param_name)

CallUpdateForMinimisation ==
  /\ CanCall
  /\ \E parameters \in ParameterChoices :
       /\ self' = update_for_minimisation(variant, Entered(self), parameters)
       /\ Called("update_for_minimisation", parameters)

CallExpandScales ==
  /\ CanCall
  /\ self' = expand_scales_to_all_reflections(variant, Entered(self))
  /\ Called("expand_scales_to_all_reflections", <<>>)

CallCleanReflectionTable ==
  /\ CanCall
  /\ self' = clean_reflection_table(variant, Entered(self))
  /\ Called("clean_reflection_table", <<>>)

BinningMethods ==
  IF variant = "XDS"
  THEN {"bin_reflections_decay", "bin_reflections_absorption",
        "bin_reflections_modulation", "bin_reflections_absorption_radially",
        "initialise_scale_factors"}
  ELSE {"initialise_scale_term", "initialise_decay_term",
        "initialise_scale_factors"}

Binning(v, obj, method) ==
  CASE method = "bin_reflections_decay" -> bin_reflections_decay(obj)
    [] method = "bin_reflections_absorption" -> bin_reflections_absorption(obj)
    [] method = "bin_reflections_modulation" -> bin_reflections_modulation(obj)
    [] method = "bin_reflections_absorption_radially" ->
         bin_reflections_absorption_radially(obj)
    [] method = "initialise_scale_term" -> initialise_scale_term(obj)
    [] method = "initialise_decay_term" -> initialise_decay_term(obj)
    [] OTHER -> IF v = "XDS" THEN XDS_initialise_scale_factors(obj)
                ELSE aimless_initialise_scale_factors(obj)

\* a binning method called again on the constructed object
CallBinning ==
  /\ CanCall
  /\ \E method \in BinningMethods :
       /\ self' = Binning(variant, Entered(self), method)
       /\ Called(method, <<>>)

Next ==
  \/ Construct
  \/ ConstructBinning
  \/ ConstructExtract
  \/ CallSetUpMinimisation
  \/ CallUpdateForMinimisation
  \/ CallExpandScales
  \/ CallCleanReflectionTable
  \/ CallBinning

Spec == Init /\ [][Next]_vars

(***************************************************************************)
(* CentroidAnalyser (algorithms/refinement/analysis/centroid_analysis.py). *)
(* A row of the table stands for n reflections that agree in every column: *)
(* the block search counts reflections by the tens.  Angles are in whole   *)
(* degrees (phi_obs_deg), residuals in whole units, a block size and an    *)
(* average are fractions <<numerator, denominator>>.  The tables carry the *)
(* x_resid, y_resid and phi_resid columns already.                         *)
(***************************************************************************)
MaxExp == 3
MaxAnalyses == 2

Reflections(id, h, cal, phi, n) ==
  [id |-> id, miller_index |-> <<h, 0, 0>>, xyzcal |-> <<cal, cal>>,
   phi_obs_deg |-> phi, n |-> n,
   x_resid |-> phi + 1, y_resid |-> 2, phi_resid |-> 0 - phi]

\* what one experiment may contribute: rows that the filters take out (not
\* indexed, not predicted), one reflection, or a sweep of few, some or many
\* reflections a degree
ExperimentRows(id) ==
  {<<Reflections(id, 0, 5, 0, 3), Reflections(id, 1, 0, 0, 3)>>,
   <<Reflections(id, 1, 5, 0, 1)>>,
   [k \in 1..5 |-> Reflections(id, 1, 5, k - 1, 2)],
   [k \in 1..5 |-> Reflections(id, 1, 5, k - 1, 30)],
   [k \in 1..4 |-> Reflections(id, 1, 5, k - 1, 60)]}

RECURSIVE CentroidTables(_)
CentroidTables(nexp) ==
  IF nexp = 0 THEN {<<>>}
  ELSE {t \o rows : t \in CentroidTables(nexp - 1),
                    rows \in ExperimentRows(nexp - 1)}

\* python dict: a function on its keys
EmptyDict == [k \in {} |-> None]

Put(d, key, value) ==
  [k \in DOMAIN d \cup {key} |-> IF k = key THEN value ELSE d[k]]

\* reflections.select(~(miller_index == (0,0,0))), then without the rows
\* whose calculated x and y are both 0
RemoveInvalid(t) ==
  LET Indexed(g) == g.miller_index # <<0, 0, 0>>
      Predicted(g) == ~(g.xyzcal[1] = 0 /\ g.xyzcal[2] = 0)
  IN SelectSeq(SelectSeq(t, Indexed), Predicted)

\* reflections.select(reflections['id'] == iexp)
OfExperiment(t, iexp) ==
  LET Mine(g) == g.id = iexp
  IN SelectSeq(t, Mine)

Count(t) == SeqSum([i \in 1..Len(t) |-> t[i].n])

\* sel of block i (from 0) of nblocks over phi_range; the last block takes
\* the maximum in
InBlock(g, phi_range, nblocks, i) ==
  LET phi_width == phi_range[2] - phi_range[1]
      offset == (g.phi_obs_deg - phi_range[1]) * nblocks
  IN IF i < nblocks - 1
     THEN i * phi_width <= offset /\ offset < (i + 1) * phi_width
     ELSE i * phi_width <= offset /\ g.phi_obs_deg <= phi_range[2]

Block(t, phi_range, nblocks, i) ==
  LET Inside(g) == InBlock(g, phi_range, nblocks, i)
  IN SelectSeq(t, Inside)

PhiRange(t) ==
  LET phi == [i \in 1..Len(t) |-> t[i].phi_obs_deg]
  IN <<SeqMin(phi), SeqMax(phi)>>

NewAnalyser(t) ==
  [pc |-> "new", input |-> t, filtered |-> <<>>, reflections |-> None,
   nexp |-> None, results |-> <<>>, iexp |-> 0,
   ideal_block_size |-> <<1, 1>>, old_nblocks |-> 0,
   average_residuals |-> FALSE, spectral_analysis |-> FALSE,
   raised |-> "", returned |-> None, ncalls |-> 0,
   last |-> [calc_average_residuals |-> FALSE, calc_periodograms |-> FALSE,
             spans |-> <<>>]]

scaling_vars == <<variant, reflections, scaling_options, self, pc, call, ncalls>>

\* __init__ to the start of the loop over the experiments; flex.max of an
\* empty column raises
CentroidAnalyser_init ==
  /\ ca.pc = "new"
  /\ LET t == RemoveInvalid(ca.input)
     IN ca' = IF Len(t) = 0
              THEN [ca EXCEPT !.pc = "failed", !.raised = "RuntimeError"]
              ELSE [ca EXCEPT
                      !.pc = "experiment", !.filtered = t,
                      !.nexp = Some(SeqMax([i \in 1..Len(t) |-> t[i].id]) + 1),
                      !.results = <<>>, !.iexp = 0]
  /\ UNCHANGED <<scaling_vars, sc, ts, cr>>

\* the head of the loop body, or the end of __init__
NextExperiment ==
  /\ ca.pc = "experiment"
  /\ ca' = IF ca.iexp = Get(ca.nexp)
           THEN [ca EXCEPT !.pc = "constructed",
                           !.reflections = Some(ca.filtered)]
           ELSE IF Len(OfExperiment(ca.filtered, ca.iexp)) = 0
           THEN [ca EXCEPT !.results = Append(@, EmptyDict),
                           !.iexp = @ + 1]
           ELSE [ca EXCEPT !.pc = "search", !.ideal_block_size = <<1, 1>>,
                           !.old_nblocks = 0]
  /\ UNCHANGED <<scaling_vars, sc, ts, cr>>

\* one turn of the while loop with fac = 50 / min_nr as an integer division
BlockSizeSearch_floor_division ==
  /\ ca.pc = "search"
  /\ LET ref_this_exp == OfExperiment(ca.filtered, ca.iexp)
         phi_range == PhiRange(ref_this_exp)
         phi_width == phi_range[2] - phi_range[1]
         floor == (phi_width * ca.ideal_block_size[2])
                    \div ca.ideal_block_size[1]
         fewer == IF floor = ca.old_nblocks THEN floor - 1 ELSE floor
         nblocks == IF fewer > 1 THEN fewer ELSE 1
         block_size == <<phi_width, nblocks>>
         nr == [i \in 1..nblocks |->
                  Count(Block(ref_this_exp, phi_range, nblocks, i - 1))]
         min_nr == SeqMin(nr)
     IN ca' = IF nblocks = 1 \/ min_nr >= 50
              THEN [ca EXCEPT
                      !.pc = "experiment", !.iexp = @ + 1,
                      !.results =
                        Append(@, [block_size |-> block_size,
                                   nref_per_block |-> nr,
                                   nblocks |-> nblocks,
                                   phi_range |-> phi_range])]
              ELSE [ca EXCEPT
                      !.ideal_block_size =
                        IF min_nr < 5 THEN <<2 * @[1], @[2]>>
                        ELSE <<(50 \div min_nr) * @[1], @[2]>>,
                      !.old_nblocks = nblocks]
  /\ UNCHANGED <<scaling_vars, sc, ts, cr>>

\* one turn of the while loop that looks for the block size
BlockSizeSearch ==
  /\ ca.pc = "search"
  /\ LET ref_this_exp == OfExperiment(ca.filtered, ca.iexp)
         phi_range == PhiRange(ref_this_exp)
         phi_width == phi_range[2] - phi_range[1]
         floor == (phi_width * ca.ideal_block_size[2])
                    \div ca.ideal_block_size[1]
         fewer == IF floor = ca.old_nblocks THEN floor - 1 ELSE floor
         nblocks == IF fewer > 1 THEN fewer ELSE 1
         block_size == <<phi_width, nblocks>>
         nr == [i \in 1..nblocks |->
                  Count(Block(ref_this_exp, phi_range, nblocks, i - 1))]
         min_nr == SeqMin(nr)
     IN ca' = IF nblocks = 1 \/ min_nr >= 50
              THEN [ca EXCEPT
                      !.pc = "experiment", !.iexp = @ + 1,
                      !.results =
                        Append(@, [block_size |-> block_size,
                                   nref_per_block |-> nr,
                                   nblocks |-> nblocks,
                                   phi_range |-> phi_range])]
              ELSE [ca EXCEPT
                      !.ideal_block_size =
                        IF min_nr < 5 THEN <<2 * @[1], @[2]>>
                        ELSE <<50 * @[1], min_nr * @[2]>>,
                      !.old_nblocks = nblocks]
  /\ UNCHANGED <<scaling_vars, sc, ts, cr>>

\* av_callback = flex.mean over n reflections a row; the mean of nothing
\* raises
Mean(t, key) ==
  IF Count(t) = 0 THEN None
  ELSE Some(<<SeqSum([i \in 1..Len(t) |-> t[i][key] * t[i].n]), Count(t)>>)

\* the per-block averages of one column, the ends replaced by their
\* neighbours where the blocks are many and narrow
AveragePerBlock(t, key, d) ==
  LET nblocks == d["nblocks"]
      per_blk == [i \in 1..nblocks |->
                    Mean(Block(t, d["phi_range"], nblocks, i - 1), key)]
  IN IF nblocks > 2 /\ d["block_size"][1] < 3 * d["block_size"][2]
     THEN [i \in 1..nblocks |->
             IF i = 1 THEN per_blk[2]
             ELSE IF i = nblocks THEN per_blk[nblocks - 1] ELSE per_blk[i]]
     ELSE per_blk

\* __call__, lines 126-162: the loop over the experiments from iexp on
RECURSIVE AverageResiduals(_, _, _)
AverageResiduals(obj, results, iexp) ==
  IF iexp > Len(results) THEN [results |-> results, raised |-> ""]
  ELSE IF "block_size" \notin DOMAIN results[iexp]
  THEN AverageResiduals(obj, results, iexp + 1)
  ELSE
  LET d == results[iexp]
      ref_this_exp == OfExperiment(Get(obj.reflections), iexp - 1)
      xr == AveragePerBlock(ref_this_exp, "x_resid", d)
      yr == AveragePerBlock(ref_this_exp, "y_resid", d)
      pr == AveragePerBlock(ref_this_exp, "phi_resid", d)
  IN IF \E i \in 1..d["nblocks"] : None \in {xr[i], yr[i], pr[i]}
     THEN [results |-> results, raised |-> "RuntimeError"]
     ELSE AverageResiduals(obj,
            [results EXCEPT ![iexp] =
               Put(Put(Put(d, "av_x_resid_per_block", xr),
                       "av_y_resid_per_block", yr),
                   "av_phi_resid_per_block", pr)],
            iexp + 1)

\* the power spectrum of a series under the given smoothing spans
Periodogram(x, spans) == [series |-> x, spans |-> spans]

\* 1000. * array
Scaled(x) == [i \in 1..Len(x) |-> <<1000 * Get(x[i])[1], Get(x[i])[2]>>]

\* __call__, lines 168-174: the loop over the results from position k on
RECURSIVE Periodograms(_, _, _)
Periodograms(results, spans, k) ==
  IF k > Len(results) THEN [results |-> results, raised |-> ""]
  ELSE IF "av_x_resid_per_block" \notin DOMAIN results[k]
  THEN [results |-> results, raised |-> "KeyError"]
  ELSE
  LET d == results[k]
      px == Periodogram(Scaled(d["av_x_resid_per_block"]), spans)
      py == Periodogram(Scaled(d["av_y_resid_per_block"]), spans)
      pz == Periodogram(Scaled(d["av_phi_resid_per_block"]), spans)
  IN Periodograms(
       [results EXCEPT ![k] =
          Put(Put(Put(d, "x_periodogram", px), "y_periodogram", py),
              "phi_periodogram", pz)],
       spans, k + 1)

CentroidAnalyser_call(obj, calc_average_residuals, calc_periodograms, spans) ==
  IF ~calc_average_residuals /\ ~calc_periodograms
  THEN [obj EXCEPT !.returned = Some(obj.results)]
  ELSE
  LET averaged == IF obj.average_residuals
                  THEN [results |-> obj.results, raised |-> ""]
                  ELSE AverageResiduals(obj, obj.results, 1)
      s1 == [obj EXCEPT
               !.results = averaged.results, !.raised = averaged.raised,
               !.average_residuals = @ \/ averaged.raised = ""]
  IN IF s1.raised # "" THEN s1
     ELSE IF ~calc_periodograms \/ s1.spectral_analysis
     THEN [s1 EXCEPT !.returned = Some(s1.results)]
     ELSE
     LET spectra == Periodograms(s1.results, spans, 1)
     IN IF spectra.raised # ""
        THEN [s1 EXCEPT !.results = spectra.results,
                        !.raised = spectra.raised]
        ELSE [s1 EXCEPT !.results = spectra.results,
                        !.spectral_analysis = TRUE,
                        !.returned = Some(spectra.results)]

SpanChoices == {<<4, 4>>, <<2>>}

\* the caller analyses the constructed object, at most MaxAnalyses times
Analyse ==
  /\ ca.pc = "constructed"
  /\ ca.ncalls < MaxAnalyses
  /\ \E calc_average_residuals \in BOOLEAN, calc_periodograms \in BOOLEAN,
        spans \in SpanChoices :
       ca' = [CentroidAnalyser_call(
                [ca EXCEPT !.raised = "", !.returned = None],
                calc_average_residuals, calc_periodograms, spans)
              EXCEPT !.ncalls = @ + 1,
                     !.last = [calc_average_residuals |-> calc_average_residuals,
                               calc_periodograms |-> calc_periodograms,
                               spans |-> spans]]
  /\ UNCHANGED <<scaling_vars, sc, ts, cr>>

AnalyserInit ==
  /\ variant = "XDS"
  /\ reflections = [keys |-> InputKeys, rows |-> <<>>]
  /\ scaling_options = ScalingOptions("standard")
  /\ self = NewObject
  /\ pc = "unused"
  /\ call = [op |-> "", arg |-> <<>>, again |-> FALSE]
  /\ ncalls = 0
  /\ ca \in {NewAnalyser(t) : t \in CentroidTables(MaxExp)}
  /\ sc = [pc |-> "unused"]
  /\ ts = [pc |-> "unused"]
  /\ cr = [pc |-> "unused"]

AnalyserNext ==
  \/ CentroidAnalyser_init
  \/ NextExperiment
  \/ BlockSizeSearch
  \/ Analyse

AnalyserSpec == AnalyserInit /\ [][AnalyserNext]_vars

\* __init__ alone, running on: a while loop that can take a turn takes it,
\* and the loop over the experiments goes on to the next one
ConstructionNext ==
  \/ CentroidAnalyser_init
  \/ NextExperiment
  \/ BlockSizeSearch

\* the tables the construction alone is followed on
MaxSearchExp == 2

ConstructionInit ==
  /\ variant = "XDS"
  /\ reflections = [keys |-> InputKeys, rows |-> <<>>]
  /\ scaling_options = ScalingOptions("standard")
  /\ self = NewObject
  /\ pc = "unused"
  /\ call = [op |-> "", arg |-> <<>>, again |-> FALSE]
  /\ ncalls = 0
  /\ ca \in {NewAnalyser(t) : t \in CentroidTables(MaxSearchExp)}
  /\ sc = [pc |-> "unused"]
  /\ ts = [pc |-> "unused"]
  /\ cr = [pc |-> "unused"]

AnalyserFairSpec ==
  /\ ConstructionInit /\ [][ConstructionNext]_vars
  /\ WF_vars(BlockSizeSearch) /\ WF_vars(NextExperiment)

(***************************************************************************)
(* The scaler of test_basis_and_target_function.py: KB model components,   *)
(* active parameter manager, basis function, Ih table and targets.         *)
(* Numbers are fractions <<numerator, denominator>> in lowest terms with a *)
(* positive denominator; exp is taken to base 2 at the floor of its        *)
(* argument.                                                               *)
(***************************************************************************)
RECURSIVE GCD(_, _)
GCD(a, b) == IF b = 0 THEN a ELSE GCD(b, a % b)

Q(n, d) ==
  LET g == GCD(IF n < 0 THEN -n ELSE n, IF d < 0 THEN -d ELSE d)
  IN IF d < 0 THEN <<(0 - n) \div g, (0 - d) \div g>> ELSE <<n \div g, d \div g>>

\* sums over the least common denominator, products reduced crosswise, so
\* that no intermediate value is larger than it has to be
QAdd(a, b) ==
  LET g == GCD(a[2], b[2])
  IN Q(a[1] * (b[2] \div g) + b[1] * (a[2] \div g), (a[2] \div g) * b[2])

QSub(a, b) == QAdd(a, <<0 - b[1], b[2]>>)

QMul(a, b) ==
  LET Abs(n) == IF n < 0 THEN 0 - n ELSE n
      g1 == GCD(Abs(a[1]), b[2])
      g2 == GCD(Abs(b[1]), a[2])
  IN IF a[1] = 0 \/ b[1] = 0 THEN <<0, 1>>
     ELSE Q((a[1] \div g1) * (b[1] \div g2), (a[2] \div g2) * (b[2] \div g1))

QDiv(a, b) == QMul(a, IF b[1] < 0 THEN <<0 - b[2], 0 - b[1]>> ELSE <<b[2], b[1]>>)

RECURSIVE QSum(_)
QSum(s) == IF s = <<>> THEN Q(0, 1) ELSE QAdd(Head(s), QSum(Tail(s)))

RECURSIVE QProduct(_)
QProduct(s) == IF s = <<>> THEN Q(1, 1) ELSE QMul(Head(s), QProduct(Tail(s)))

\* np.exp
QExp(x) ==
  LET e == Floor(x)
  IN IF e >= 0 THEN Q(Exp(e), 1) ELSE Q(1, Exp(0 - e))

ScalerRow(intensity, variance, miller_index, d) ==
  [intensity |-> Q(intensity, 1), variance |-> Q(variance, 1),
   miller_index |-> miller_index, d |-> d]

\* the three-reflection table of the tests
generated_refl ==
  << ScalerRow(75, 50, <<1, 0, 0>>, Q(2, 1)),
     ScalerRow(10, 10, <<0, 0, 1>>, Q(8, 10)),
     ScalerRow(100, 100, <<1, 0, 0>>, Q(2, 1)) >>

\* further tables: one with a symmetry mate and three groups, one with a
\* single group, one with two groups whose members differ in resolution
ScalerTables ==
  {generated_refl,
   << ScalerRow(30, 10, <<-1, 0, 0>>, Q(1, 1)),
      ScalerRow(10, 20, <<0, 2, 0>>, Q(2, 1)),
      ScalerRow(20, 10, <<1, 0, 0>>, Q(1, 1)),
      ScalerRow(40, 20, <<0, 0, 1>>, Q(2, 1)) >>,
   << ScalerRow(12, 4, <<0, 0, 1>>, Q(1, 1)),
      ScalerRow(20, 4, <<0, 0, -1>>, Q(2, 1)) >>,
   << ScalerRow(3, 1, <<1, 0, 0>>, Q(1, 1)),
      ScalerRow(2, 1, <<0, 0, 1>>, Q(1, 1)),
      ScalerRow(1, 2, <<-1, 0, 0>>, Q(2, 1)),
      ScalerRow(4, 1, <<0, 0, -1>>, Q(2, 1)) >>}

\* SingleScaleFactor: one parameter, the same scale for every reflection
SingleScaleFactor(parameters, rt) ==
  [parameters |-> parameters,
   inverse_scales |-> [i \in 1..Len(rt) |-> parameters[1]],
   derivatives |-> [i \in 1..Len(rt) |-> <<Q(1, 1)>>],
   curvatures |-> [i \in 1..Len(rt) |-> <<Q(0, 1)>>]]

\* SingleBScaleFactor: exp(B / (2 d^2)) and its first and second derivative
SingleBScaleFactor(parameters, rt) ==
  LET TwoDSq(i) == QMul(Q(2, 1), QMul(rt[i].d, rt[i].d))
      scale == [i \in 1..Len(rt) |-> QExp(QDiv(parameters[1], TwoDSq(i)))]
  IN [parameters |-> parameters,
      inverse_scales |-> scale,
      derivatives |-> [i \in 1..Len(rt) |-> <<QDiv(scale[i], TwoDSq(i))>>],
      curvatures |-> [i \in 1..Len(rt) |->
                        <<QDiv(scale[i], QMul(TwoDSq(i), TwoDSq(i)))>>]]

\* the components dictionary in its iteration order
ComponentOrder == <<"scale", "decay">>

\* component.calculate_scales_and_derivatives() at the given parameters
Component(name, parameters, rt) ==
  IF name = "scale" THEN SingleScaleFactor(parameters, rt)
  ELSE SingleBScaleFactor(parameters, rt)

\* scaling_active_parameter_manager(components, selection_list): the
\* selected components in the dictionary's order, each with its start index
scaling_active_parameter_manager(components, selection_list) ==
  LET Chosen(name) == name \in Range(selection_list)
      components_list == SelectSeq(ComponentOrder, Chosen)
      x == [k \in 1..Len(components_list) |->
              components[components_list[k]].parameters[1]]
  IN [components_list |-> components_list, x |-> x,
      n_active_params |-> Len(components_list),
      start_idx |-> [k \in 1..Len(components_list) |-> k - 1]]

\* apm.set_param_vals(x), followed by the components' recalculation in
\* basis_function.update_scale_factors(apm)
basis_update_scale_factors(components, apm, x, rt) ==
  [name \in DOMAIN components |->
     IF \E k \in 1..Len(apm.components_list) : apm.components_list[k] = name
     THEN LET k == CHOOSE j \in 1..Len(apm.components_list) :
                     apm.components_list[j] = name
          IN Component(name, <<x[k]>>, rt)
     ELSE components[name]]

\* the product of the inverse scales of the active components but `except`
OtherScales(components, apm, except, i) ==
  QProduct([k \in 1..Len(apm.components_list) |->
              IF apm.components_list[k] = except THEN Q(1, 1)
              ELSE components[apm.components_list[k]].inverse_scales[i]])

\* basis_function.calculate_scale_factors
calculate_scale_factors(components, apm, n_obs) ==
  [i \in 1..n_obs |-> OtherScales(components, apm, "", i)]

\* variant: a matrix without columns where no component is active
calculate_derivatives_without_columns(components, apm, n_obs, of) ==
  Some([i \in 1..n_obs |->
          [k \in 1..apm.n_active_params |->
             LET name == apm.components_list[k]
             IN QMul(components[name][of][i][1],
                     OtherScales(components, apm, name, i))]])

\* variant: each component's own derivatives, the other scales left out
calculate_derivatives_unscaled(components, apm, n_obs, of) ==
  IF apm.components_list = <<>> THEN None
  ELSE Some([i \in 1..n_obs |->
               [k \in 1..apm.n_active_params |->
                  components[apm.components_list[k]][of][i][1]]])

\* basis_function.calculate_derivatives / calculate_curvatures over the
\* matrices `of` ("derivatives" or "curvatures"): None without an active
\* component, else one column a parameter in the apm's order
calculate_derivatives(components, apm, n_obs, of) ==
  IF apm.components_list = <<>> THEN None
  ELSE Some([i \in 1..n_obs |->
               [k \in 1..apm.n_active_params |->
                  LET name == apm.components_list[k]
                  IN QMul(components[name][of][i][1],
                          OtherScales(components, apm, name, i))]])

\* basis_function(curvatures).calculate_scales_and_derivatives(apm)
calculate_scales_and_derivatives(components, apm, n_obs, curvatures) ==
  [scales |-> calculate_scale_factors(components, apm, n_obs),
   derivatives |-> calculate_derivatives(components, apm, n_obs, "derivatives"),
   curvatures |-> IF curvatures
                  THEN calculate_derivatives(components, apm, n_obs, "curvatures")
                  ELSE None]

\* map_to_asu in C 2y with Friedel mates: the largest of the equivalent
\* indices
LexLess(a, b) ==
  \/ a[1] < b[1]
  \/ a[1] = b[1] /\ a[2] < b[2]
  \/ a[1] = b[1] /\ a[2] = b[2] /\ a[3] < b[3]

map_to_asu(hkl) ==
  LET mates == {hkl, <<0 - hkl[1], hkl[2], 0 - hkl[3]>>,
                <<0 - hkl[1], 0 - hkl[2], 0 - hkl[3]>>,
                <<hkl[1], 0 - hkl[2], hkl[3]>>}
  IN CHOOSE m \in mates : \A o \in mates : o = m \/ LexLess(o, m)

\* the rows in ascending order of asu index, equal indices in input order
RECURSIVE SortedByAsu(_)
SortedByAsu(rows) ==
  IF rows = <<>> THEN <<>>
  ELSE LET Before(i, j) ==
             \/ LexLess(rows[i].asu_miller_index, rows[j].asu_miller_index)
             \/ rows[i].asu_miller_index = rows[j].asu_miller_index /\ i < j
           first == CHOOSE i \in 1..Len(rows) :
                      \A j \in 1..Len(rows) : j = i \/ Before(i, j)
       IN <<rows[first]>>
          \o SortedByAsu([k \in 1..(Len(rows) - 1) |->
                            IF k < first THEN rows[k] ELSE rows[k + 1]])

\* variant: every observation weighs the same
Ih_table_calc_Ih_unweighted(T) ==
  LET n == Len(T.intensities)
      Of(i, j, x) == IF T.asu_miller_index[j] = T.asu_miller_index[i]
                     THEN x ELSE Q(0, 1)
      sumgI(i) == QSum([j \in 1..n |->
                    Of(i, j, QMul(T.inverse_scale_factors[j], T.intensities[j]))])
      sumgsq(i) == QSum([j \in 1..n |->
                     Of(i, j, QMul(T.inverse_scale_factors[j],
                                   T.inverse_scale_factors[j]))])
  IN [T EXCEPT !.Ih_values = [i \in 1..n |-> QDiv(sumgI(i), sumgsq(i))]]

\* Ih_table.calc_Ih: sum(w g I) / sum(w g^2) over the observations of the
\* group of each row
Ih_table_calc_Ih(T) ==
  LET n == Len(T.intensities)
      Of(i, j, x) == IF T.asu_miller_index[j] = T.asu_miller_index[i]
                     THEN x ELSE Q(0, 1)
      sumgI(i) == QSum([j \in 1..n |->
                    Of(i, j, QMul(T.weights[j],
                                  QMul(T.inverse_scale_factors[j],
                                       T.intensities[j])))])
      sumgsq(i) == QSum([j \in 1..n |->
                     Of(i, j, QMul(T.weights[j],
                                   QMul(T.inverse_scale_factors[j],
                                        T.inverse_scale_factors[j])))])
  IN [T EXCEPT !.Ih_values = [i \in 1..n |-> QDiv(sumgI(i), sumgsq(i))]]

\* the Ih table of a reflection table: sorted by asu index, weights
\* 1 / variance, scales 1; `order` is the row of the input each row came from
Ih_table_init(rt) ==
  LET indexed == [i \in 1..Len(rt) |->
                    [row |-> i, asu_miller_index |-> map_to_asu(rt[i].miller_index)]]
      sorted == SortedByAsu(indexed)
      n == Len(rt)
  IN Ih_table_calc_Ih(
       [order |-> [i \in 1..n |-> sorted[i].row],
        asu_miller_index |-> [i \in 1..n |-> sorted[i].asu_miller_index],
        intensities |-> [i \in 1..n |-> rt[sorted[i].row].intensity],
        weights |-> [i \in 1..n |-> QDiv(Q(1, 1), rt[sorted[i].row].variance)],
        inverse_scale_factors |-> [i \in 1..n |-> Q(1, 1)],
        Ih_values |-> <<>>,
        derivatives |-> None])

\* scaler.update_for_minimisation(apm): the basis function's scales and
\* derivatives go into the Ih table, row for row, and Ih is recalculated
scaler_update_for_minimisation(components, apm, T) ==
  LET n == Len(T.intensities)
      basis == calculate_scales_and_derivatives(components, apm, n, FALSE)
  IN Ih_table_calc_Ih(
       [T EXCEPT
          !.inverse_scale_factors = [i \in 1..n |-> basis.scales[T.order[i]]],
          !.derivatives =
            IF basis.derivatives = None THEN None
            ELSE Some([i \in 1..n |-> Get(basis.derivatives)[T.order[i]]])])

\* variant: the scaled intensity against Ih, I / g - Ih
target_calculate_residuals_of_scaled_intensity(T) ==
  [i \in 1..Len(T.intensities) |->
     QSub(QDiv(T.intensities[i], T.inverse_scale_factors[i]), T.Ih_values[i])]

\* ScalingTarget.calculate_residuals: I - g Ih
target_calculate_residuals(T) ==
  [i \in 1..Len(T.intensities) |->
     QSub(T.intensities[i], QMul(T.inverse_scale_factors[i], T.Ih_values[i]))]

\* the square of ScalingTarget.rmsds: sum(w R^2) / n
rmsds_squared(T) ==
  LET R == target_calculate_residuals(T)
  IN QDiv(QSum([i \in 1..Len(R) |-> QMul(T.weights[i], QMul(R[i], R[i]))]),
          Q(Len(R), 1))

\* ScalingTargetFixedIH.calculate_jacobian: Ih is constant
fixedIh_calculate_jacobian(T) ==
  [i \in 1..Len(T.intensities) |->
     [j \in 1..Len(Get(T.derivatives)[i]) |->
        QSub(Q(0, 1), QMul(T.Ih_values[i], Get(T.derivatives)[i][j]))]]

\* ScalingTargetFixedIH.compute_functional_gradients:
\* -2 sum(w R Ih dg/dp)
fixedIh_calculate_gradients(T) ==
  LET R == target_calculate_residuals(T)
      n_params == Len(Get(T.derivatives)[1])
  IN [j \in 1..n_params |->
        QMul(Q(-2, 1),
             QSum([i \in 1..Len(R) |->
                     QMul(QMul(T.weights[i], R[i]),
                          QMul(T.Ih_values[i], Get(T.derivatives)[i][j]))]))]

\* dIh/dp of the group of row i for parameter k:
\* (sum(w I dg/dp) - 2 Ih sum(w g dg/dp)) / sum(w g^2)
target_dIh_by_dpi(T, i, k) ==
  LET n == Len(T.intensities)
      InGroup(j, x) == IF T.asu_miller_index[j] = T.asu_miller_index[i]
                       THEN x ELSE Q(0, 1)
      dg(j) == Get(T.derivatives)[j][k]
      wIdg == QSum([j \in 1..n |->
                InGroup(j, QMul(T.weights[j], QMul(T.intensities[j], dg(j))))])
      wgdg == QSum([j \in 1..n |->
                InGroup(j, QMul(T.weights[j],
                                QMul(T.inverse_scale_factors[j], dg(j))))])
      wgsq == QSum([j \in 1..n |->
                InGroup(j, QMul(T.weights[j],
                                QMul(T.inverse_scale_factors[j],
                                     T.inverse_scale_factors[j])))])
  IN QDiv(QSub(wIdg, QMul(Q(2, 1), QMul(T.Ih_values[i], wgdg))), wgsq)

\* ScalingTarget.calculate_jacobian: dR/dp = -(Ih dg/dp + g dIh/dp)
target_calculate_jacobian(T) ==
  [i \in 1..Len(T.intensities) |->
     [k \in 1..Len(Get(T.derivatives)[i]) |->
        QSub(Q(0, 1),
             QAdd(QMul(T.Ih_values[i], Get(T.derivatives)[i][k]),
                  QMul(T.inverse_scale_factors[i], target_dIh_by_dpi(T, i, k))))]]

\* ScalingTarget.calculate_gradients: -2 sum(w R (Ih dg/dp + g dIh/dp))
target_calculate_gradients(T) ==
  LET R == target_calculate_residuals(T)
      J == target_calculate_jacobian(T)
  IN [k \in 1..Len(Get(T.derivatives)[1]) |->
        QMul(Q(2, 1),
             QSum([i \in 1..Len(R) |-> QMul(QMul(T.weights[i], R[i]), J[i][k])]))]

(***************************************************************************)
(* The finite differences of the tests.  A perturbed quantity is held to   *)
(* first order in the step: <<value, coefficient of delta>>, with          *)
(* exp(a + b delta) = exp(a) (1 + b delta).  The central difference        *)
(* (f(x + delta/2) - f(x - delta/2)) / delta is then the coefficient.      *)
(***************************************************************************)
DConst(q) == <<q, Q(0, 1)>>
DSub(a, b) == <<QSub(a[1], b[1]), QSub(a[2], b[2])>>
DMul(a, b) == <<QMul(a[1], b[1]), QAdd(QMul(a[1], b[2]), QMul(a[2], b[1]))>>
DDiv(a, b) ==
  <<QDiv(a[1], b[1]),
    QDiv(QSub(QMul(a[2], b[1]), QMul(a[1], b[2])), QMul(b[1], b[1]))>>
DExp(a) == <<QExp(a[1]), QMul(QExp(a[1]), a[2])>>

RECURSIVE DSum(_)
DSum(s) ==
  IF s = <<>> THEN DConst(Q(0, 1))
  ELSE <<QAdd(Head(s)[1], DSum(Tail(s))[1]), QAdd(Head(s)[2], DSum(Tail(s))[2])>>

RECURSIVE DProduct(_)
DProduct(s) ==
  IF s = <<>> THEN DConst(Q(1, 1)) ELSE DMul(Head(s), DProduct(Tail(s)))

\* the inverse scale of reflection i of a component whose parameter is x
perturbed_inverse_scale(name, x, rt, i) ==
  IF name = "scale" THEN x
  ELSE DExp(DDiv(x, DConst(QMul(Q(2, 1), QMul(rt[i].d, rt[i].d)))))

\* new_x[i] -= 0.5 * delta ... new_x[i] += delta; apm.set_param_vals(new_x):
\* the scales of the basis function with active parameter k perturbed
perturbed_scales(components, apm, k, rt) ==
  [i \in 1..Len(rt) |->
     DProduct([c \in 1..Len(apm.components_list) |->
                 LET name == apm.components_list[c]
                 IN IF c = k
                    THEN perturbed_inverse_scale(name, <<apm.x[c], Q(1, 1)>>, rt, i)
                    ELSE DConst(components[name].inverse_scales[i])])]

\* variant: the residuals of the perturbed scales against the Ih values the
\* table holds
perturbed_residuals_stale_Ih(T, g) ==
  [i \in 1..Len(T.intensities) |->
     DSub(DConst(T.intensities[i]), DMul(g[i], DConst(T.Ih_values[i])))]

\* scaler.update_for_minimisation(apm) and target.calculate_residuals on the
\* perturbed scales: Ih of each group again, then I - g Ih
perturbed_residuals(T, g) ==
  LET n == Len(T.intensities)
      Members(i) == SelectSeq([j \in 1..n |-> j],
                      LAMBDA j : T.asu_miller_index[j] = T.asu_miller_index[i])
      Ih(i) ==
        LET m == Members(i)
        IN DDiv(DSum([a \in 1..Len(m) |->
                        DMul(DConst(QMul(T.weights[m[a]], T.intensities[m[a]])),
                             g[m[a]])]),
                DSum([a \in 1..Len(m) |->
                        DMul(DConst(T.weights[m[a]]), DMul(g[m[a]], g[m[a]]))]))
  IN [i \in 1..n |-> DSub(DConst(T.intensities[i]), DMul(g[i], Ih(i)))]

\* calculate_jacobian_fd: (R_upper - R_low) / delta, a column a parameter
calculate_jacobian_fd(components, apm, T, rt) ==
  LET n == Len(T.intensities)
      R(k) ==
        LET scales == perturbed_scales(components, apm, k, rt)
        IN perturbed_residuals(T, [i \in 1..n |-> scales[T.order[i]]])
  IN [i \in 1..n |-> [k \in 1..apm.n_active_params |-> R(k)[i][2]]]

\* calculate_gradient_fd: (sum(w R_upper^2) - sum(w R_low^2)) / delta
calculate_gradient_fd(components, apm, T, rt) ==
  LET n == Len(T.intensities)
      Functional(k) ==
        LET scales == perturbed_scales(components, apm, k, rt)
            R == perturbed_residuals(T, [i \in 1..n |-> scales[T.order[i]]])
        IN DSum([i \in 1..n |-> DMul(DConst(T.weights[i]), DMul(R[i], R[i]))])
  IN [k \in 1..apm.n_active_params |-> Functional(k)[2]]

(***************************************************************************)
(* Blocks of the Ih table.  A block is a range of rows of the sorted       *)
(* table; a boundary falls where the asu index changes, so that every      *)
(* group lies in one block.                                                *)
(***************************************************************************)
MaxProc == 2

\* the last row of block b of nblocks: the end of the group that holds row
\* b n / nblocks
block_end(T, nblocks, b) ==
  LET n == Len(T.asu_miller_index)
      ideal == (b * n) \div nblocks
      Ends == {e \in 0..n : /\ e >= ideal
                            /\ \/ e = 0 \/ e = n
                               \/ T.asu_miller_index[e + 1] # T.asu_miller_index[e]}
  IN CHOOSE e \in Ends : \A o \in Ends : e <= o

\* the first and last row of each block, in the order of their ids
blocked_data_list(T, nblocks) ==
  [b \in 1..nblocks |->
     <<(IF b = 1 THEN 0 ELSE block_end(T, nblocks, b - 1)) + 1,
       block_end(T, nblocks, b)>>]

\* the view of the rows lo..hi
Ih_table_block(T, range) ==
  LET View(column) == SubSeq(column, range[1], range[2])
  IN [asu_miller_index |-> View(T.asu_miller_index),
      intensities |-> View(T.intensities),
      weights |-> View(T.weights),
      inverse_scale_factors |-> View(T.inverse_scale_factors),
      Ih_values |-> View(T.Ih_values),
      derivatives |-> Some(View(Get(T.derivatives)))]

\* target.compute_residuals_and_gradients(block)
compute_residuals_and_gradients(block) ==
  [residuals |-> target_calculate_residuals(block),
   jacobian |-> IF Len(block.intensities) = 0 THEN <<>>
                ELSE target_calculate_jacobian(block)]

\* variant: the results in the order the blocks finished in
RECURSIVE concatenate_as_finished(_, _)
concatenate_as_finished(results, finished) ==
  IF finished = <<>> THEN [residuals |-> <<>>, jacobian |-> <<>>]
  ELSE LET rest == concatenate_as_finished(results, Tail(finished))
           first == Get(results[Head(finished)])
       IN [residuals |-> first.residuals \o rest.residuals,
           jacobian |-> first.jacobian \o rest.jacobian]

\* the results of the blocks, one after another by block id
RECURSIVE concatenate_by_block_id(_, _)
concatenate_by_block_id(results, finished) ==
  IF results = <<>> THEN [residuals |-> <<>>, jacobian |-> <<>>]
  ELSE LET rest == concatenate_by_block_id(Tail(results), finished)
           first == Get(Head(results))
       IN [residuals |-> first.residuals \o rest.residuals,
           jacobian |-> first.jacobian \o rest.jacobian]

MockTable(inverse_scale_factors, intensities, Ih_values, weights, derivatives) ==
  [inverse_scale_factors |-> inverse_scale_factors, intensities |-> intensities,
   Ih_values |-> Ih_values, weights |-> weights,
   derivatives |-> Some(derivatives)]

\* the mock Ih table of the fixed-Ih test
mock_single_Ih_table ==
  MockTable(<<Q(1, 1), Q(10, 11), Q(1, 1)>>,
            <<Q(10, 1), Q(10, 1), Q(12, 1)>>,
            <<Q(11, 1), Q(11, 1), Q(11, 1)>>,
            <<Q(1, 1), Q(1, 1), Q(1, 1)>>,
            <<<<Q(1, 1)>>, <<Q(2, 1)>>, <<Q(3, 1)>>>>)

\* and tables with other weights, Ih values and a second parameter
MockTables ==
  {mock_single_Ih_table,
   MockTable(<<Q(2, 1), Q(1, 2)>>, <<Q(9, 1), Q(4, 1)>>,
             <<Q(5, 1), Q(6, 1)>>, <<Q(1, 2), Q(3, 1)>>,
             <<<<Q(1, 1), Q(0, 1)>>, <<Q(1, 2), Q(-1, 1)>>>>),
   MockTable(<<Q(1, 1)>>, <<Q(7, 1)>>, <<Q(7, 1)>>, <<Q(2, 1)>>,
             <<<<Q(5, 1)>>>>)}

MaxRounds == 2

SelectionLists ==
  {<<>>, <<"scale">>, <<"decay">>, <<"scale", "decay">>, <<"decay", "scale">>}

\* the values a test gives the parameter of a component
ParameterValues(name) ==
  IF name = "scale" THEN {Q(1, 1), Q(2, 1)} ELSE {Q(0, 1), Q(8, 1)}

NewScaler(rt) ==
  [pc |-> "new", rt |-> rt, components |-> None, Ih_table |-> None,
   apm |-> None, curvatures |-> FALSE, basis |-> None, residuals |-> None,
   rmsds_squared |-> None, fixed |-> None, compared |-> None, blocks |-> None,
   rounds |-> 0]

analyser_vars == <<ca>>

\* create_scaler: the components at their initial parameters, the Ih table
create_scaler ==
  /\ sc.pc = "new"
  /\ sc' = [sc EXCEPT
              !.pc = "scaler",
              !.components =
                Some([name \in Range(ComponentOrder) |->
                        Component(name,
                                  IF name = "scale" THEN <<Q(1, 1)>>
                                  ELSE <<Q(0, 1)>>,
                                  sc.rt)]),
              !.Ih_table = Some(Ih_table_init(sc.rt))]
  /\ UNCHANGED <<scaling_vars, analyser_vars, ts, cr>>

\* a new active parameter manager; what the calls before it returned is gone
CreateApm ==
  /\ sc.pc \in {"scaler", "calculated", "updated", "target"}
  /\ sc.rounds < MaxRounds
  /\ \E selection_list \in SelectionLists :
       sc' = [sc EXCEPT
                !.pc = "apm", !.rounds = @ + 1,
                !.apm = Some(scaling_active_parameter_manager(
                               Get(sc.components), selection_list)),
                !.curvatures = FALSE, !.basis = None, !.residuals = None,
                !.rmsds_squared = None]
  /\ UNCHANGED <<scaling_vars, analyser_vars, ts, cr>>

\* apm.set_param_vals(x)
SetParamVals ==
  /\ sc.pc = "apm"
  /\ LET apm == Get(sc.apm)
     IN \E x \in [1..apm.n_active_params ->
                    UNION {ParameterValues(name) : name \in Range(ComponentOrder)}] :
          /\ \A k \in 1..apm.n_active_params :
               x[k] \in ParameterValues(apm.components_list[k])
          /\ sc' = [sc EXCEPT !.pc = "set", !.apm = Some([apm EXCEPT !.x = x])]
  /\ UNCHANGED <<scaling_vars, analyser_vars, ts, cr>>

\* basis_function(curvatures).calculate_scales_and_derivatives(apm)
CalculateScalesAndDerivatives ==
  /\ sc.pc = "set"
  /\ \E curvatures \in BOOLEAN :
       LET apm == Get(sc.apm)
           components == basis_update_scale_factors(Get(sc.components), apm,
                                                    apm.x, sc.rt)
       IN sc' = [sc EXCEPT
                   !.pc = "calculated", !.curvatures = curvatures,
                   !.components = Some(components),
                   !.basis = Some(calculate_scales_and_derivatives(
                                    components, apm, Len(sc.rt), curvatures))]
  /\ UNCHANGED <<scaling_vars, analyser_vars, ts, cr>>

\* scaler.update_for_minimisation(apm)
UpdateForMinimisation ==
  /\ sc.pc = "set"
  /\ LET apm == Get(sc.apm)
         components == basis_update_scale_factors(Get(sc.components), apm,
                                                  apm.x, sc.rt)
     IN sc' = [sc EXCEPT
                 !.pc = "updated",
                 !.components = Some(components),
                 !.Ih_table = Some(scaler_update_for_minimisation(
                                     components, apm, Get(sc.Ih_table)))]
  /\ UNCHANGED <<scaling_vars, analyser_vars, ts, cr>>

\* ScalingTarget: calculate_residuals and rmsds on the scaler's Ih table
CalculateTarget ==
  /\ sc.pc = "updated"
  /\ sc' = [sc EXCEPT
              !.pc = "target",
              !.residuals = Some(target_calculate_residuals(Get(sc.Ih_table))),
              !.rmsds_squared = Some(rmsds_squared(Get(sc.Ih_table)))]
  /\ UNCHANGED <<scaling_vars, analyser_vars, ts, cr>>

\* ScalingTargetFixedIH on a mock Ih table: compute_residuals,
\* compute_functional_gradients and calculate_jacobian
TargetFixedIH ==
  /\ sc.pc = "new"
  /\ \E T \in MockTables :
       sc' = [sc EXCEPT
                !.pc = "fixed",
                !.fixed = Some([Ih_table |-> T,
                                R |-> target_calculate_residuals(T),
                                G |-> fixedIh_calculate_gradients(T),
                                J |-> fixedIh_calculate_jacobian(T)])]
  /\ UNCHANGED <<scaling_vars, analyser_vars, ts, cr>>

\* the finite difference tests: after update_for_minimisation, the target's
\* residuals, Jacobian and gradients against the finite differences
CompareFiniteDifference ==
  /\ sc.pc = "updated"
  /\ Get(sc.apm).n_active_params > 0
  /\ LET T == Get(sc.Ih_table)
         components == Get(sc.components)
         apm == Get(sc.apm)
     IN sc' = [sc EXCEPT
                 !.pc = "compared",
                 !.compared =
                   Some([res |-> target_calculate_residuals(T),
                         jacobian |-> target_calculate_jacobian(T),
                         grad |-> target_calculate_gradients(T),
                         fd_jacobian |-> calculate_jacobian_fd(components, apm,
                                                               T, sc.rt),
                         f_d_grad |-> calculate_gradient_fd(components, apm,
                                                            T, sc.rt)])]
  /\ UNCHANGED <<scaling_vars, analyser_vars, ts, cr>>

\* scaling_options.nproc: the Ih table in nproc blocks, none computed yet
SplitIntoBlocks ==
  /\ sc.pc = "updated"
  /\ Get(sc.apm).n_active_params > 0
  /\ \E nproc \in 1..MaxProc :
       sc' = [sc EXCEPT
                !.pc = "blocks",
                !.blocks =
                  Some([ranges |-> blocked_data_list(Get(sc.Ih_table), nproc),
                        results |-> [b \in 1..nproc |-> None],
                        finished |-> <<>>,
                        joined |-> None])]
  /\ UNCHANGED <<scaling_vars, analyser_vars, ts, cr>>

\* a worker computes the residuals and the Jacobian of a block no worker has
\* computed yet
ComputeBlock ==
  /\ sc.pc = "blocks"
  /\ LET blocks == Get(sc.blocks)
     IN \E b \in 1..Len(blocks.ranges) :
          /\ blocks.results[b] = None
          /\ sc' = [sc EXCEPT
                      !.blocks =
                        Some([blocks EXCEPT
                                !.results[b] =
                                  Some(compute_residuals_and_gradients(
                                         Ih_table_block(Get(sc.Ih_table),
                                                        blocks.ranges[b]))),
                                !.finished = Append(@, b)])]
  /\ UNCHANGED <<scaling_vars, analyser_vars, ts, cr>>

\* every block is computed: the results are put together
JoinBlocks ==
  /\ sc.pc = "blocks"
  /\ LET blocks == Get(sc.blocks)
     IN /\ \A b \in 1..Len(blocks.ranges) : blocks.results[b] # None
        /\ sc' = [sc EXCEPT
                    !.pc = "joined",
                    !.blocks =
                      Some([blocks EXCEPT
                              !.joined = Some(concatenate_by_block_id(
                                                blocks.results, blocks.finished))])]
  /\ UNCHANGED <<scaling_vars, analyser_vars, ts, cr>>

ScalerInit ==
  /\ variant = "XDS"
  /\ reflections = [keys |-> InputKeys, rows |-> <<>>]
  /\ scaling_options = ScalingOptions("standard")
  /\ self = NewObject
  /\ pc = "unused"
  /\ call = [op |-> "", arg |-> <<>>, again |-> FALSE]
  /\ ncalls = 0
  /\ ca = [pc |-> "unused"]
  /\ sc \in {NewScaler(rt) : rt \in ScalerTables}
  /\ ts = [pc |-> "unused"]
  /\ cr = [pc |-> "unused"]

ScalerNext ==
  \/ create_scaler
  \/ CreateApm
  \/ SetParamVals
  \/ CalculateScalesAndDerivatives
  \/ UpdateForMinimisation
  \/ CalculateTarget
  \/ CompareFiniteDifference
  \/ SplitIntoBlocks
  \/ ComputeBlock
  \/ JoinBlocks
  \/ TargetFixedIH

ScalerSpec == ScalerInit /\ [][ScalerNext]_vars

(***************************************************************************)
(* peak_finding/threshold.py: XDSThresholdStrategy.  The strategy keeps a   *)
(* dict from image shape to an algorithm object and a result buffer; a     *)
(* buffer is a place on the heap, and what a call returns is a reference   *)
(* to it.                                                                  *)
(***************************************************************************)
MaxImages == 3

Shapes == {<<1, 1>>, <<1, 2>>, <<2, 1>>}

Size(shape) == shape[1] * shape[2]

\* the images and the masks of a shape
Images(shape) ==
  {[shape |-> shape, data |-> [p \in 1..Size(shape) |-> v]] : v \in {3, 5}}

Masks(shape) ==
  {[shape |-> shape, data |-> [p \in 1..Size(shape) |-> p > skip]] : skip \in {0, 1}}

\* flex.bool(flex.grid(shape)): every pixel False
flex_bool(shape) == [p \in 1..Size(shape) |-> FALSE]

\* DispersionThreshold(image, mask[, gain], result): the strong pixels among
\* the valid ones; it refuses a mask of another shape
DispersionThreshold(image, mask, gain, min_count) ==
  [p \in 1..Size(image.shape) |->
     mask.data[p] /\ image.data[p] >= min_count * gain]

NewStrategy(gain) ==
  [pc |-> "ready", kernel_size |-> <<3, 3>>, gain |-> gain, n_sigma_b |-> 6,
   n_sigma_s |-> 3, min_count |-> 2, algorithm |-> EmptyDict, heap |-> <<>>,
   calls |-> <<>>, raised |-> ""]

\* variant: a new result buffer at every call
XDSThresholdStrategy_call_new_buffer(obj, image, mask) ==
  LET shape == image.shape
      s1 == [obj EXCEPT
               !.heap = Append(@, flex_bool(shape)),
               !.algorithm = Put(@, shape, [algorithm |-> shape,
                                            result |-> Len(obj.heap) + 1])]
      result == s1.algorithm[shape].result
      gain == IF obj.gain = None \/ obj.gain = Some(0) THEN 1 ELSE Get(obj.gain)
  IN IF mask.shape # shape
     THEN [s1 EXCEPT !.raised = "RuntimeError",
                     !.calls = Append(@, [shape |-> shape, returned |-> None,
                                          mask |-> None])]
     ELSE LET thresholded == DispersionThreshold(image, mask, gain, obj.min_count)
          IN [s1 EXCEPT !.raised = "",
                        !.heap[result] = thresholded,
                        !.calls = Append(@, [shape |-> shape,
                                             returned |-> Some(result),
                                             mask |-> Some(thresholded)])]

\* __call__(image, mask)
XDSThresholdStrategy_call(obj, image, mask) ==
  LET shape == image.shape
      s1 == IF shape \in DOMAIN obj.algorithm THEN obj
            ELSE [obj EXCEPT
                    !.heap = Append(@, flex_bool(shape)),
                    !.algorithm = Put(@, shape, [algorithm |-> shape,
                                                 result |-> Len(obj.heap) + 1])]
      result == s1.algorithm[shape].result
      gain == IF obj.gain = None \/ obj.gain = Some(0) THEN 1 ELSE Get(obj.gain)
  IN IF mask.shape # shape
     THEN [s1 EXCEPT !.raised = "RuntimeError",
                     !.calls = Append(@, [shape |-> shape, returned |-> None,
                                          mask |-> None])]
     ELSE LET thresholded == DispersionThreshold(image, mask, gain, obj.min_count)
          IN [s1 EXCEPT !.raised = "",
                        !.heap[result] = thresholded,
                        !.calls = Append(@, [shape |-> shape,
                                             returned |-> Some(result),
                                             mask |-> Some(thresholded)])]

threshold_vars == <<ts>>

\* the spot finder thresholds an image
Threshold ==
  /\ ts.pc = "ready"
  /\ Len(ts.calls) < MaxImages
  /\ \E shape \in Shapes, mask_shape \in Shapes :
       \E image \in Images(shape), mask \in Masks(mask_shape) :
         ts' = XDSThresholdStrategy_call(ts, image, mask)
  /\ UNCHANGED <<scaling_vars, analyser_vars, sc, cr>>

ThresholdInit ==
  /\ variant = "XDS"
  /\ reflections = [keys |-> InputKeys, rows |-> <<>>]
  /\ scaling_options = ScalingOptions("standard")
  /\ self = NewObject
  /\ pc = "unused"
  /\ call = [op |-> "", arg |-> <<>>, again |-> FALSE]
  /\ ncalls = 0
  /\ ca = [pc |-> "unused"]
  /\ sc = [pc |-> "unused"]
  /\ ts \in {NewStrategy(gain) : gain \in {None, Some(0), Some(2)}}
  /\ cr = [pc |-> "unused"]

ThresholdNext == Threshold

ThresholdSpec == ThresholdInit /\ [][ThresholdNext]_vars

(***************************************************************************)
(* The crystal model: 3x3 matrices are nine exact fractions, row by row    *)
(***************************************************************************)
MaxCrystalCalls == 2

QZero == <<0, 1>>
QOne == <<1, 1>>

QSqrt(q) == <<Sqrt(q[1]), Sqrt(q[2])>>

col(v) == <<Q(v[1], 1), Q(v[2], 1), Q(v[3], 1)>>

col_dot(u, v) == QAdd(QAdd(QMul(u[1], v[1]), QMul(u[2], v[2])), QMul(u[3], v[3]))

col_length(u) == QSqrt(col_dot(u, u))

\* the cosine of the angle between two vectors, None if one has no length
col_angle(u, v) ==
  IF col_length(u) = QZero \/ col_length(v) = QZero THEN None
  ELSE Some(QDiv(col_dot(u, v), QMul(col_length(u), col_length(v))))

sqr_identity == <<QOne, QZero, QZero, QZero, QOne, QZero, QZero, QZero, QOne>>

sqr_row(m, r) == <<m[3 * (r - 1) + 1], m[3 * (r - 1) + 2], m[3 * (r - 1) + 3]>>

sqr_column(m, c) == <<m[c], m[3 + c], m[6 + c]>>

sqr_transpose(m) == [k \in 1..9 |-> m[3 * ((k - 1) % 3) + ((k - 1) \div 3) + 1]]

sqr_mul(m, n) ==
  [k \in 1..9 |-> col_dot(sqr_row(m, ((k - 1) \div 3) + 1),
                          sqr_column(n, ((k - 1) % 3) + 1))]

sqr_determinant(m) ==
  QAdd(QSub(QMul(m[1], QSub(QMul(m[5], m[9]), QMul(m[6], m[8]))),
            QMul(m[2], QSub(QMul(m[4], m[9]), QMul(m[6], m[7])))),
       QMul(m[3], QSub(QMul(m[4], m[8]), QMul(m[5], m[7]))))

\* the inverse by cofactors; only asked of a matrix with a determinant
sqr_inverse(m) ==
  LET E(r, c) == m[3 * (r % 3) + (c % 3) + 1]
      det == sqr_determinant(m)
  IN [k \in 1..9 |->
        LET i == (k - 1) \div 3
            j == (k - 1) % 3
        IN QDiv(QSub(QMul(E(j + 1, i + 1), E(j + 2, i + 2)),
                     QMul(E(j + 1, i + 2), E(j + 2, i + 1))), det)]

is_r3_rotation_matrix(m) ==
  /\ sqr_mul(m, sqr_transpose(m)) = sqr_identity
  /\ sqr_determinant(m) = QOne

\* 1 - cos^2 alpha - cos^2 beta - cos^2 gamma + 2 cos alpha cos beta cos gamma:
\* the square of the cell volume over (a b c)^2
volume_factor(ca_, cb_, cg_) ==
  QAdd(QSub(QSub(QSub(QOne, QMul(ca_, ca_)), QMul(cb_, cb_)), QMul(cg_, cg_)),
       QMul(Q(2, 1), QMul(ca_, QMul(cb_, cg_))))

\* unit_cell(cell): the cell of three lengths and three angles, the angles kept
\* as their cosines; None where the constructor raises
unit_cell(a, b, c, alpha, beta, gamma) ==
  IF alpha = None \/ beta = None \/ gamma = None THEN None
  ELSE IF volume_factor(Get(alpha), Get(beta), Get(gamma))[1] <= 0 THEN None
  ELSE Some([a |-> a, b |-> b, c |-> c, cos_alpha |-> Get(alpha),
             cos_beta |-> Get(beta), cos_gamma |-> Get(gamma)])

orthogonalization_matrix(uc) ==
  LET sin_gamma == QSqrt(QSub(QOne, QMul(uc.cos_gamma, uc.cos_gamma)))
      v == QSqrt(volume_factor(uc.cos_alpha, uc.cos_beta, uc.cos_gamma))
  IN << uc.a, QMul(uc.b, uc.cos_gamma), QMul(uc.c, uc.cos_beta),
        QZero, QMul(uc.b, sin_gamma),
        QDiv(QMul(uc.c, QSub(uc.cos_alpha, QMul(uc.cos_beta, uc.cos_gamma))),
             sin_gamma),
        QZero, QZero, QDiv(QMul(uc.c, v), sin_gamma) >>

fractionalization_matrix(uc) == sqr_inverse(orthogonalization_matrix(uc))

\* crystal_orientation(B, True).unit_cell(): the cell whose axes are the rows
\* of the inverse of the reciprocal matrix; None where it raises
crystal_orientation_unit_cell(B) ==
  IF sqr_determinant(B) = QZero THEN None
  ELSE LET direct == sqr_inverse(B)
           a == sqr_row(direct, 1)
           b == sqr_row(direct, 2)
           c == sqr_row(direct, 3)
       IN unit_cell(col_length(a), col_length(b), col_length(c),
                    col_angle(b, c), col_angle(c, a), col_angle(a, b))

\* SG(space_group_symbols(symbol))
SG(symbol) == [symbol |-> symbol]

\* set_mosaicity(mosaicity, deg): thousandths of a degree in, thousandths of a
\* radian kept
Crystal_set_mosaicity(obj, mosaicity, deg) ==
  [obj EXCEPT !.mosaicity = IF deg THEN (mosaicity * 3142) \div 180000
                            ELSE mosaicity,
              !.raised = ""]

\* set_unit_cell without its closing _update_B()
Crystal_set_unit_cell_stale_B(obj, real_space_a, real_space_b, real_space_c) ==
  LET uc == unit_cell(col_length(real_space_a), col_length(real_space_b),
                      col_length(real_space_c),
                      col_angle(real_space_b, real_space_c),
                      col_angle(real_space_c, real_space_a),
                      col_angle(real_space_a, real_space_b))
  IN IF uc = None THEN [obj EXCEPT !.raised = "RuntimeError"]
     ELSE [obj EXCEPT !.uc = Get(uc), !.raised = ""]

\* _update_B()
Crystal_update_B(obj) ==
  [obj EXCEPT !.B = sqr_transpose(fractionalization_matrix(obj.uc))]

\* set_unit_cell(real_space_a, real_space_b, real_space_c)
Crystal_set_unit_cell(obj, real_space_a, real_space_b, real_space_c) ==
  LET uc == unit_cell(col_length(real_space_a), col_length(real_space_b),
                      col_length(real_space_c),
                      col_angle(real_space_b, real_space_c),
                      col_angle(real_space_c, real_space_a),
                      col_angle(real_space_a, real_space_b))
  IN IF uc = None THEN [obj EXCEPT !.raised = "RuntimeError"]
     ELSE Crystal_update_B([obj EXCEPT !.uc = Get(uc), !.raised = ""])

\* set_U(U)
Crystal_set_U(obj, U) ==
  IF ~is_r3_rotation_matrix(U) THEN [obj EXCEPT !.raised = "AssertionError"]
  ELSE [obj EXCEPT !.U = U, !.raised = ""]

\* set_B(B)
Crystal_set_B(obj, B) ==
  LET uc == crystal_orientation_unit_cell(B)
  IN IF uc = None THEN [obj EXCEPT !.raised = "RuntimeError"]
     ELSE [obj EXCEPT !.uc = Get(uc),
                      !.B = sqr_transpose(fractionalization_matrix(Get(uc))),
                      !.raised = ""]

\* get_A()
get_A(obj) == sqr_mul(obj.U, obj.B)

\* the arguments a Crystal is constructed with
CrystalArgs(a, b, c, symbol, space_group, mosaicity) ==
  [pc |-> "new", a |-> a, b |-> b, c |-> c, symbol |-> symbol,
   space_group |-> space_group, mosaicity_arg |-> mosaicity]

\* __init__(real_space_a, real_space_b, real_space_c, space_group_symbol,
\* space_group, mosaicity, deg = True); a constructor that raises leaves no
\* object
Crystal_init(args) ==
  LET failed(e) == [pc |-> "failed", raised |-> e]
      sg == IF args.symbol # None /\ Get(args.symbol) # ""
            THEN Some(SG(Get(args.symbol))) ELSE args.space_group
      o1 == [pc |-> "ready", sg |-> sg, mosaicity |-> 0, uc |-> None,
             B |-> None, U |-> None, raised |-> "", ncalls |-> 0,
             last |-> [op |-> "__init__", arg |-> <<>>]]
      o2 == IF args.mosaicity_arg # None
            THEN Crystal_set_mosaicity(o1, Get(args.mosaicity_arg), TRUE)
            ELSE o1
      real_space_a == col(args.a)
      real_space_b == col(args.b)
      real_space_c == col(args.c)
      rows == real_space_a \o real_space_b \o real_space_c
      o3 == Crystal_set_unit_cell(o2, real_space_a, real_space_b, real_space_c)
      o4 == Crystal_update_B(o3)
  IN IF (IF args.symbol = None THEN 1 ELSE 0)
        + (IF args.space_group = None THEN 1 ELSE 0) # 1
     THEN failed("AssertionError")
     ELSE IF sqr_determinant(rows) = QZero THEN failed("RuntimeError")
     ELSE IF o3.raised # "" THEN failed(o3.raised)
     ELSE [o4 EXCEPT !.U = sqr_mul(sqr_inverse(rows), sqr_inverse(o4.B))]

\* real space axes: an oblique cell, the same cell turned a quarter about z,
\* an orthogonal cell, and three axes in one plane
RealSpaceAxes ==
  { << <<5, 0, 0>>, <<3, 4, 0>>, <<0, 0, 2>> >>,
    << <<0, 5, 0>>, <<-4, 3, 0>>, <<0, 0, 2>> >>,
    << <<2, 0, 0>>, <<0, 3, 0>>, <<0, 0, 4>> >>,
    << <<5, 0, 0>>, <<3, 4, 0>>, <<10, 0, 0>> >> }

sqr(elems) == [k \in 1..9 |-> Q(elems[k], 1)]

\* the identity, a quarter turn about z, a mirror and a doubling
OrientationMatrices ==
  { sqr(<<1, 0, 0, 0, 1, 0, 0, 0, 1>>), sqr(<<0, -1, 0, 1, 0, 0, 0, 0, 1>>),
    sqr(<<1, 0, 0, 0, 1, 0, 0, 0, -1>>), sqr(<<2, 0, 0, 0, 2, 0, 0, 0, 2>>) }

\* reciprocal matrices: of the orthogonal cell, of the oblique cell turned a
\* quarter about z, and one with no inverse
ReciprocalMatrices ==
  { <<Q(1, 2), QZero, QZero, QZero, Q(1, 3), QZero, QZero, QZero, Q(1, 4)>>,
    sqr_inverse(sqr(<<0, 5, 0, -4, 3, 0, 0, 0, 2>>)),
    sqr(<<1, 0, 0, 1, 0, 0, 0, 0, 1>>) }

crystal_vars == <<cr>>

\* the caller constructs the crystal
ConstructCrystal ==
  /\ cr.pc = "new"
  /\ cr' = Crystal_init(cr)
  /\ UNCHANGED <<scaling_vars, analyser_vars, sc, ts>>

CanCallCrystal == cr.pc = "ready" /\ cr.ncalls < MaxCrystalCalls

Noted(obj, op, arg) ==
  [obj EXCEPT !.ncalls = @ + 1, !.last = [op |-> op, arg |-> arg]]

SetUnitCell ==
  /\ CanCallCrystal
  /\ \E axes \in RealSpaceAxes :
       cr' = Noted(Crystal_set_unit_cell(cr, col(axes[1]), col(axes[2]),
                                         col(axes[3])), "set_unit_cell", axes)
  /\ UNCHANGED <<scaling_vars, analyser_vars, sc, ts>>

SetU ==
  /\ CanCallCrystal
  /\ \E U \in OrientationMatrices :
       cr' = Noted(Crystal_set_U(cr, U), "set_U", U)
  /\ UNCHANGED <<scaling_vars, analyser_vars, sc, ts>>

SetB ==
  /\ CanCallCrystal
  /\ \E B \in ReciprocalMatrices :
       cr' = Noted(Crystal_set_B(cr, B), "set_B", B)
  /\ UNCHANGED <<scaling_vars, analyser_vars, sc, ts>>

SetMosaicity ==
  /\ CanCallCrystal
  /\ \E mosaicity \in {0, 1000}, deg \in BOOLEAN :
       cr' = Noted(Crystal_set_mosaicity(cr, mosaicity, deg), "set_mosaicity",
                   <<mosaicity, deg>>)
  /\ UNCHANGED <<scaling_vars, analyser_vars, sc, ts>>

CrystalInit ==
  /\ variant = "XDS"
  /\ reflections = [keys |-> InputKeys, rows |-> <<>>]
  /\ scaling_options = ScalingOptions("standard")
  /\ self = NewObject
  /\ pc = "unused"
  /\ call = [op |-> "", arg |-> <<>>, again |-> FALSE]
  /\ ncalls = 0
  /\ ca = [pc |-> "unused"]
  /\ sc = [pc |-> "unused"]
  /\ ts = [pc |-> "unused"]
  /\ cr \in {CrystalArgs(axes[1], axes[2], axes[3], symbol, space_group, m) :
               axes \in RealSpaceAxes, symbol \in {None, Some("P 1")},
               space_group \in {None, Some(SG("P 2"))},
               m \in {None, Some(1000)}}

CrystalNext == ConstructCrystal \/ SetUnitCell \/ SetU \/ SetB \/ SetMosaicity

CrystalSpec == CrystalInit /\ [][CrystalNext]_vars

(***************************************************************************)
(* Properties of the Data Manager                                          *)
(***************************************************************************)
\* what an iteration of the minimiser can see of the object
Observables(obj) ==
  [reflections_for_scaling |-> obj.reflections_for_scaling,
   active_derivatives |-> obj.active_derivatives,
   Ih_table |-> obj.Ih_table,
   residuals |-> IF obj.Ih_table = None THEN None
                 ELSE Some(calculate_residuals(Get(obj.Ih_table))),
   raised |-> obj.raised]

\* Ih of the group of row i, summed over every row of the same asu index
ExpectedIh(asu, intensity, scale, w, i) ==
  LET n == Len(asu)
      Of(j, x) == IF asu[j] = asu[i] THEN x ELSE 0
      sumgI == SeqSum([j \in 1..n |-> Of(j, scale[j] * intensity[j] * w[j])])
      sumgsq == SeqSum([j \in 1..n |-> Of(j, scale[j] * scale[j] * w[j])])
      sumw == SeqSum([j \in 1..n |-> Of(j, w[j])])
  IN IF sumw > 0 THEN <<sumgI, sumgsq>> ELSE <<0, 1>>

\* C1: calling update_for_minimisation twice in a row with the same parameter
\* vector leaves the inverse scale factors, the derivatives, the Ih table and
\* the residuals after the second call as they were after the first.
C1_UpdateIdempotent ==
  [][(call'.op = "update_for_minimisation" /\ call'.again)
       => Observables(self') = Observables(self)]_vars

\* the second of two equal updates has returned, with scales that are not 1
C1_Witness ==
  /\ call.op = "update_for_minimisation" /\ call.again
  /\ self.raised = ""
  /\ \E i \in 1..Len(Get(self.Ih_table).inverse_scale_factor) :
       Get(self.Ih_table).inverse_scale_factor[i] > 1

\* C2: every variant follows the life cycle INITIALIZED -> BINNED ->
\* EXTRACTED -> ITERATING* -> CONVERGED -> EXPANDED: the constructed object
\* has its binned components, its scaling subset and its Ih table, and
\* expand_scales_to_all_reflections, run last, completes.
C2_Lifecycle ==
  /\ pc \in {"EXTRACTED", "ITERATING", "EXPANDED"} =>
       /\ self.g_decay # None
       /\ self.reflections_for_scaling # None
       /\ self.Ih_table # None
  /\ pc = "EXPANDED" => self.raised = ""

\* C3: when update_for_minimisation(parameters) has returned, the scaling
\* subset's inverse_scale_factor is the basis function's output for
\* parameters, the Ih table holds those scale factors, and every Ih value is
\* the one computed from them.
C3_UpdateConsistent ==
  (call.op = "update_for_minimisation" /\ self.raised = "") =>
    LET T == Get(self.Ih_table)
        scales == get_basis_function(variant, self, call.arg).scales
    IN /\ Column(Get(self.reflections_for_scaling), "inverse_scale_factor") = scales
       /\ T.inverse_scale_factor = scales
       /\ \A i \in 1..Len(scales) :
            T.Ih_values[i] =
              ExpectedIh(T.asu_miller_index, T.intensity, scales, T.weights, i)

\* an update has returned on a group of two rows whose Ih is no longer the
\* one of unit scales
C3_Witness ==
  /\ call.op = "update_for_minimisation" /\ self.raised = ""
  /\ LET T == Get(self.Ih_table)
     IN \E i, j \in 1..Len(T.Ih_values) :
          /\ i # j
          /\ T.asu_miller_index[i] = T.asu_miller_index[j]
          /\ T.inverse_scale_factor[i] > 1
          /\ T.Ih_values[i][1] # T.Ih_values[i][2] * T.intensity[i]

\* the values tried in place of a row's intensity and of its scale factor
Perturbations == {0, 7}

\* no Ih value of T depends on the intensity or the scale of a row of weight 0
ZeroWeightRowsInert(T) ==
  \A k \in 1..Len(T.weights) :
    T.weights[k] = 0 =>
      \A x, y \in Perturbations :
        calc_Ih([T EXCEPT !.intensity[k] = x,
                          !.inverse_scale_factor[k] = y]).Ih_values
          = calc_Ih(T).Ih_values

\* the Ih table expand_scales_to_all_reflections built over the sorted table
ExpansionIhTable(obj) ==
  single_Ih_table(Get(obj.sorted_reflections), Get(obj.weights_for_scaling))

\* C4: rows of weight 0 are excluded from Ih estimation.  While iterating,
\* the Ih table is built on the rows of positive weight only; in the final
\* expansion over the full sorted table, changing the intensity or the scale
\* of a row of weight 0 changes no group's Ih.
C4_ZeroWeightExcluded ==
  /\ self.Ih_table # None =>
       /\ \A k \in 1..Len(Get(self.Ih_table).weights) :
            Get(self.Ih_table).weights[k] > 0
       /\ ZeroWeightRowsInert(Get(self.Ih_table))
  /\ pc \in {"EXTRACTED", "ITERATING"} =>
       LET w == update_weights_for_scaling(Get(self.scaling_options),
                                           Get(self.sorted_reflections))
       IN Len(Get(self.reflections_for_scaling).rows)
            = Cardinality({k \in 1..Len(w) : w[k] > 0})
  /\ (call.op = "expand_scales_to_all_reflections" /\ self.raised = "") =>
       /\ Column(Get(self.sorted_reflections), "Ih_values")
            = ExpansionIhTable(self).Ih_values
       /\ ZeroWeightRowsInert(ExpansionIhTable(self))

\* the expansion has run over a table in which a row of weight 0 shares its
\* group with a row of positive weight, and the scaling subset left it out
C4_Witness ==
  /\ call.op = "expand_scales_to_all_reflections" /\ self.raised = ""
  /\ LET T == ExpansionIhTable(self)
     IN \E i, j \in 1..Len(T.weights) :
          /\ T.weights[i] = 0 /\ T.weights[j] > 0
          /\ T.asu_miller_index[i] = T.asu_miller_index[j]
          /\ T.Ih_values[i][1] > 0
  /\ Len(Get(self.reflections_for_scaling).rows)
       < Len(Get(self.sorted_reflections).rows)

\* C5: for every group of rows of one asu miller index,
\* Ih = sum(scale.I.w) / sum(scale^2.w) over the group's rows, a group whose
\* weights sum to zero gets Ih = 0, and every row holds its group's Ih.
C5_IhFormula ==
  /\ self.Ih_table # None =>
       LET T == Get(self.Ih_table)
       IN \A i \in 1..Len(T.intensity) :
            T.Ih_values[i] =
              ExpectedIh(T.asu_miller_index, T.intensity,
                         T.inverse_scale_factor, T.weights, i)
  /\ (call.op = "expand_scales_to_all_reflections" /\ self.raised = "") =>
       LET sr == Get(self.sorted_reflections)
       IN \A i \in 1..Len(sr.rows) :
            sr.rows[i]["Ih_values"] =
              ExpectedIh(Column(sr, "asu_miller_index"), Column(sr, "intensity"),
                         Column(sr, "inverse_scale_factor"),
                         Get(self.weights_for_scaling), i)

\* the expansion has run over a group of weight 0 and a group of two rows
\* whose scales are not 1
C5_Witness ==
  /\ call.op = "expand_scales_to_all_reflections" /\ self.raised = ""
  /\ LET sr == Get(self.sorted_reflections)
         w == Get(self.weights_for_scaling)
     IN /\ \E i \in 1..Len(sr.rows) :
             /\ sr.rows[i]["Ih_values"] = <<0, 1>>
             /\ \A j \in 1..Len(sr.rows) :
                  sr.rows[j]["asu_miller_index"] = sr.rows[i]["asu_miller_index"]
                    => w[j] = 0
        /\ \E i, j \in 1..Len(sr.rows) :
             /\ i # j
             /\ sr.rows[i]["asu_miller_index"] = sr.rows[j]["asu_miller_index"]
             /\ w[i] > 0 /\ w[j] > 0
             /\ sr.rows[i]["inverse_scale_factor"] > 1
             /\ sr.rows[i]["Ih_values"] = sr.rows[j]["Ih_values"]

Contiguous(asu) ==
  \A i, k \in 1..Len(asu) :
    (i < k /\ asu[i] = asu[k]) => \A j \in i..k : asu[j] = asu[i]

\* the rows at which a group starts
GroupBoundaries(asu) == {i \in 1..Len(asu) : i = 1 \/ asu[i] # asu[i - 1]}

Grouped(t) ==
  "asu_miller_index" \in t.keys =>
    LET asu == Column(t, "asu_miller_index")
    IN /\ Contiguous(asu)
       /\ Cardinality(GroupBoundaries(asu)) = Cardinality(Range(asu))

\* C6: once map_indices_to_asu has sorted the table, in sorted_reflections
\* and in reflections_for_scaling all rows of one asu miller index are
\* contiguous, and the groups found at the boundaries are as many as the
\* distinct asu miller indices.
C6_GroupsContiguous ==
  /\ self.sorted_reflections # None => Grouped(Get(self.sorted_reflections))
  /\ self.reflections_for_scaling # None =>
       Grouped(Get(self.reflections_for_scaling))
  /\ self.Ih_table # None =>
       Len(Get(self.Ih_table).h_index_counter_array)
         = Cardinality(Range(Get(self.Ih_table).asu_miller_index))
  /\ (call.op = "expand_scales_to_all_reflections" /\ self.raised = "") =>
       Len(Get(self.h_index_counter_array))
         = Cardinality(Range(Column(Get(self.sorted_reflections),
                                    "asu_miller_index")))

\* the table was given with a row of another group between two rows of one
\* group, and both the sorted table and the scaling subset hold the pair
C6_Witness ==
  /\ Len(reflections.rows) = 3
  /\ AsuIndex(reflections.rows[1]["miller_index"])
       = AsuIndex(reflections.rows[3]["miller_index"])
  /\ AsuIndex(reflections.rows[1]["miller_index"])
       # AsuIndex(reflections.rows[2]["miller_index"])
  /\ self.Ih_table # None
  /\ Len(Get(self.reflections_for_scaling).rows) = 3
  /\ Len(Get(self.Ih_table).h_index_counter_array) = 2

\* the columns each component reads its coordinates from
ComponentColumns(v) ==
  IF v = "XDS"
  THEN [g_modulation |-> <<"normalised_x_values", "normalised_y_values">>,
        g_decay |-> <<"normalised_res_values", "normalised_time_values">>,
        g_absorption |-> <<"normalised_x_abs_values", "normalised_y_abs_values",
                           "normalised_time_values">>]
  ELSE [g_scale |-> <<"normalised_rotation_angle">>,
        g_decay |-> <<"normalised_time_values">>]

\* the scale of row i composed from the components as they stand
ComposedScale(v, obj, i) ==
  LET Scale(name) == calculate_smooth_scales(Get(obj[name]))[i]
  IN IF v = "XDS"
     THEN IF Get(obj.scaling_options).parameterization = "log"
          THEN Exp(Scale("g_modulation") + Scale("g_decay") + Scale("g_absorption"))
          ELSE Scale("g_modulation") * Scale("g_decay") * Scale("g_absorption")
     ELSE Scale("g_scale")
            * DecayFactor(Scale("g_decay"),
                          Get(obj.sorted_reflections).rows[i]["d"])

\* C7: expand_scales_to_all_reflections, run last, gives every component the
\* coordinates of the full sorted table, sets each row's inverse_scale_factor
\* to the composition of the component scales, and computes one final Ih
\* over the full sorted table, so that every row of sorted_reflections has
\* an inverse_scale_factor and an Ih value.
C7_Expansion ==
  (call.op = "expand_scales_to_all_reflections" /\ pc = "EXPANDED") =>
    /\ self.raised = ""
    /\ LET sr == Get(self.sorted_reflections)
           columns == ComponentColumns(variant)
       IN /\ {"inverse_scale_factor", "Ih_values"} \subseteq sr.keys
          /\ \A name \in DOMAIN columns :
               Get(self[name]).normalised_values = Coords(sr, columns[name])
          /\ \A i \in 1..Len(sr.rows) :
               /\ sr.rows[i]["inverse_scale_factor"]
                    = ComposedScale(variant, self, i)
               /\ sr.rows[i]["Ih_values"] =
                    ExpectedIh(Column(sr, "asu_miller_index"),
                               Column(sr, "intensity"),
                               Column(sr, "inverse_scale_factor"),
                               update_weights_for_scaling(
                                 Get(self.scaling_options), sr), i)

\* C8: whatever scaling_options['parameterization'] is, the constant scales
\* set_up_minimisation combines follow the rule the binning chose the
\* components' initial value by: the sum for initial value 0, the product
\* for initial value 1.
C8_OneCompositionRule ==
  (/\ variant = "XDS" /\ pc = "ITERATING"
   /\ call.op = "set_up_minimisation" /\ self.raised = "") =>
    LET constant == ScalesOf(self, ComponentNames \ {call.arg})
    IN self.constant_g_values =
         Some(IF InitialValue(self) = 0 THEN SumArrays(constant)
              ELSE ProdArrays(constant))

\* C9: expand_scales_to_all_reflections and then clean_reflection_table both
\* complete and leave sorted_reflections with the columns the table came
\* with and inverse_scale_factor (and Ih_values, if kept), no more, no less.
C9_RoundTrip ==
  [][pc' = "CLEANED" =>
       /\ self.raised = "" /\ self'.raised = ""
       /\ Get(self'.sorted_reflections).keys
            \in {reflections.keys \cup {"inverse_scale_factor"},
                 reflections.keys \cup {"inverse_scale_factor", "Ih_values"}}]_vars

BinningOps ==
  {"bin_reflections_decay", "bin_reflections_absorption",
   "bin_reflections_modulation", "initialise_scale_factors",
   "initialise_scale_term", "initialise_decay_term"}

NormalisedColumnNames ==
  {"normalised_x_values", "normalised_y_values", "normalised_res_values",
   "normalised_time_values", "normalised_x_abs_values",
   "normalised_y_abs_values", "normalised_rotation_angle"}

\* the component grids, and the normalised coordinate columns of the table
Grids(obj) ==
  <<obj.g_absorption, obj.g_modulation, obj.g_decay, obj.g_scale,
    obj.g_parameterisation>>

NormalisedColumns(obj) ==
  LET sr == Get(obj.sorted_reflections)
  IN [i \in 1..Len(sr.rows) |->
        [key \in NormalisedColumnNames \cap sr.keys |-> sr.rows[i][key]]]

\* C10: a binning operation run again after construction fails at once and
\* leaves the component grids and the normalised coordinate columns as they
\* were.
C10_BinningFrozen ==
  [][(call'.op \in BinningOps /\ ncalls' = ncalls + 1) =>
       /\ self'.raised # ""
       /\ Grids(self') = Grids(self)
       /\ NormalisedColumns(self') = NormalisedColumns(self)]_vars

\* coordinate c lies strictly between the first and the last node of axis a
StrictlyInside(g, coords, a) ==
  /\ g.origin[a] * coords[a][2] < coords[a][1]
  /\ coords[a][1] < (g.origin[a] + g.shape[a] - 1) * coords[a][2]

\* C11: for every scale-factor component created at binning and every
\* reflection of sorted_reflections (hence of the scaling subset), the grid
\* reaches beyond the normalised coordinate on both sides of every axis.
C11_GridExceedsRange ==
  Constructed =>
    LET sr == Get(self.sorted_reflections)
        columns == ComponentColumns(variant)
    IN \A name \in DOMAIN columns :
         Range(columns[name]) \subseteq sr.keys =>
           LET g == Get(self[name])
               coords == Coords(sr, columns[name])
           IN \A i \in 1..Len(coords) : \A a \in 1..Len(g.shape) :
                StrictlyInside(g, coords[i], a)

\* the table the weights held in weights_for_scaling were computed from
WeightedTable ==
  IF pc \in {"EXTRACTED", "ITERATING"} THEN Get(self.reflections_for_scaling)
  ELSE Get(self.sorted_reflections)

\* the cutoffs of a row, with I/sigma(I) < Isigma_min as I^2 < Isigma_min^2.var
CutOff(row, keys, options) ==
  \/ row["intensity"] * row["intensity"]
       < options.Isigma_min * options.Isigma_min * row["variance"]
  \/ row["d"] < options.d_min
  \/ ("wilson_outlier_flag" \in keys /\ row["wilson_outlier_flag"])

\* C12: update_weights_for_scaling gives a reflection weight 0 exactly when
\* I/sigma(I) < Isigma_min, or d < d_min, or it is flagged a Wilson outlier,
\* and 1/variance otherwise; computing the weights of the table again gives
\* the weights held.
C12_Weights ==
  pc \in {"INITIALIZED", "BINNED", "EXTRACTED", "ITERATING", "EXPANDED"} =>
    LET t == WeightedTable
        w == Get(self.weights_for_scaling)
        options == Get(self.scaling_options)
    IN /\ Len(w) = Len(t.rows)
       /\ \A i \in 1..Len(w) :
            /\ w[i] = 0 <=> CutOff(t.rows[i], t.keys, options)
            /\ w[i] # 0 => w[i] = InverseVariance(t.rows[i]["variance"])
       /\ update_weights_for_scaling(options, t) = w

\* the weights of the expanded table hold a row cut off by its flag alone, a
\* row cut off by its resolution alone and a row that is kept
C12_Witness ==
  /\ pc = "EXPANDED" /\ self.raised = ""
  /\ LET t == Get(self.sorted_reflections)
         w == Get(self.weights_for_scaling)
         options == Get(self.scaling_options)
     IN \E i, j, k \in 1..Len(w) :
          /\ w[i] = 0 /\ t.rows[i]["wilson_outlier_flag"]
          /\ t.rows[i]["d"] >= options.d_min
          /\ w[j] = 0 /\ t.rows[j]["d"] < options.d_min
          /\ ~t.rows[j]["wilson_outlier_flag"]
          /\ w[k] > 0

\* some reflection of the sorted table takes no angular/radial bin or, where
\* z bin boundaries exist, no z bin
LeftUnassigned(obj) ==
  LET sr == Get(obj.sorted_reflections)
  IN \E i \in 1..Len(sr.rows) :
       \/ firstbin_index(sr)[i] = -1
       \/ /\ obj.bin_boundaries # None
          /\ Get(obj.binning_parameters).n_z_bins # None
          /\ secondbin_index(sr, Get(obj.bin_boundaries)["z_value"],
                             Get(Get(obj.binning_parameters).n_z_bins))[i] = -1

\* C13: bin_reflections_absorption_radially raises ValueError exactly when
\* some reflection is left without an angular/radial bin or without a z bin,
\* and whenever it raises it has set neither the a_bin_index column nor
\* n_absorption_bins nor g_absorption.
C13_RadialBinningFailure ==
  [][(call'.op = "bin_reflections_absorption_radially" /\ ncalls' = ncalls + 1) =>
       /\ (self'.raised = "ValueError") <=> LeftUnassigned(self)
       /\ self'.raised # "" =>
            /\ "a_bin_index" \notin Get(self'.sorted_reflections).keys
            /\ self'.n_absorption_bins = None
            /\ self'.g_absorption = self.g_absorption]_vars

\* C14: with a parameterization name other than 'standard' or 'log' the XDS
\* data manager never gets to binning, set_up_minimisation, the choice of a
\* basis function or expansion: construction stops before any component
\* exists and no method is ever called on the object.
C14_InvalidParameterization ==
  (variant = "XDS" /\ scaling_options.parameterization \notin {"standard", "log"}) =>
    /\ pc \in {"new", "INITIALIZED", "failed"}
    /\ \A name \in ComponentNames : self[name] = None
    /\ self.constant_g_values = None
    /\ call.op = ""

\* C15: when n_d_bins, n_z_bins or n_detector_bins is missing, construction
\* of the XDS data manager fails at its binning step, and at the failure no
\* scale-factor component exists and sorted_reflections has no normalised
\* coordinate column.
C15_MissingBinningParameter ==
  (variant = "XDS" /\ \E key \in RequiredBinningParameters :
                        scaling_options[key] = None) =>
    /\ pc \in {"new", "INITIALIZED", "failed"}
    /\ pc = "failed" =>
         /\ self.raised # ""
         /\ \A name \in ComponentNames : self[name] = None
         /\ NormalisedColumnNames \cap Get(self.sorted_reflections).keys = {}

\* experiment iexp (from 0) has no reflection left after the filters
Skipped(iexp) == Len(OfExperiment(Get(ca.reflections), iexp)) = 0

\* C16: an experiment left without reflections by the filters gets an empty
\* dictionary as its result, and a call that asks for average residuals and
\* periodograms then returns without raising, with the periodograms of every
\* other experiment in the results.
C16_EmptyExperimentSkipped ==
  ca.pc = "constructed" =>
    /\ \A iexp \in 0..(Get(ca.nexp) - 1) :
         Skipped(iexp) => ca.results[iexp + 1] = EmptyDict
    /\ (ca.ncalls > 0 /\ ca.last.calc_average_residuals
        /\ ca.last.calc_periodograms) =>
         /\ ca.raised = ""
         /\ \A iexp \in 0..(Get(ca.nexp) - 1) :
              ~Skipped(iexp) =>
                {"x_periodogram", "y_periodogram", "phi_periodogram"}
                  \subseteq DOMAIN ca.results[iexp + 1]

\* C17: with no active parameter the basis function returns a scale factor
\* for every reflection and None for the derivatives and for the curvatures,
\* also where curvatures were asked for.
C17_NoActiveParameters ==
  (sc.pc = "calculated" /\ Get(sc.apm).n_active_params = 0) =>
    /\ Len(Get(sc.basis).scales) = Len(sc.rt)
    /\ \A i \in 1..Len(sc.rt) : Get(sc.basis).scales[i][1] > 0
    /\ Get(sc.basis).derivatives = None
    /\ Get(sc.basis).curvatures = None

C17_Witness ==
  /\ sc.pc = "calculated"
  /\ Get(sc.apm).n_active_params = 0
  /\ sc.curvatures
  /\ sc.rt = generated_refl
  /\ Len(Get(sc.basis).scales) = 3

\* the product of the inverse scales at reflection i of the components named
ScaleProduct(names, i) ==
  QProduct([k \in 1..Len(names) |-> Get(sc.components)[names[k]].inverse_scales[i]])

Without(names, k) ==
  [m \in 1..(Len(names) - 1) |-> IF m < k THEN names[m] ELSE names[m + 1]]

\* column k of the matrices `of` is component k's own column times the
\* product of the other active components' scales
ProductRule(matrix, of) ==
  LET names == Get(sc.apm).components_list
  IN /\ matrix # None
     /\ Len(Get(matrix)) = Len(sc.rt)
     /\ \A i \in 1..Len(sc.rt) :
          /\ Len(Get(matrix)[i]) = Len(names)
          /\ \A k \in 1..Len(names) :
               Get(matrix)[i][k] =
                 QMul(Get(sc.components)[names[k]][of][i][1],
                      ScaleProduct(Without(names, k), i))

\* C18: for one or more active components the basis function's scale of a
\* reflection is the product of the components' scales, and the derivative
\* (and curvature) column of a component is its own derivative (curvature)
\* times the product of the other components' scales, the columns in the
\* order the apm holds the components in.
C18_ProductRule ==
  (sc.pc = "calculated" /\ Get(sc.apm).n_active_params >= 1) =>
    LET names == Get(sc.apm).components_list
        basis == Get(sc.basis)
    IN /\ \A k \in 1..Len(names) :
            /\ Get(sc.apm).start_idx[k] = k - 1
            /\ Get(sc.components)[names[k]].parameters = <<Get(sc.apm).x[k]>>
       /\ \A i \in 1..Len(sc.rt) : basis.scales[i] = ScaleProduct(names, i)
       /\ ProductRule(basis.derivatives, "derivatives")
       /\ sc.curvatures => ProductRule(basis.curvatures, "curvatures")

\* two active components, decay parameter not 0, curvatures asked for, on
\* the table of the tests
C18_Witness ==
  /\ sc.pc = "calculated"
  /\ sc.rt = generated_refl
  /\ sc.curvatures
  /\ Get(sc.apm).components_list = <<"scale", "decay">>
  /\ Get(sc.apm).x = <<Q(2, 1), Q(8, 1)>>
  /\ Get(Get(sc.basis).derivatives)[1] # <<Q(1, 1), Q(1, 1)>>

\* the residuals the fixed-Ih test expects
expected_residuals == <<Q(-1, 1), Q(0, 1), Q(1, 1)>>

\* C19: in the fixed-Ih target the residual of observation i is
\* I_i - g_i Ih_i, the Jacobian has a row an observation and a column an
\* active parameter with J[i,j] = -Ih_i dg_i/dp_j, the gradient is
\* -2 sum_i w_i R_i Ih_i dg_i/dp_j, and the mock table (inverse scale
\* factors 1, 1/1.1, 1, Ih 11, intensities 10, 10, 12) has the residuals
\* -1, 0, 1 exactly.
C19_FixedIhTarget ==
  sc.pc = "fixed" =>
    LET T == Get(sc.fixed).Ih_table
        R == Get(sc.fixed).R
        G == Get(sc.fixed).G
        J == Get(sc.fixed).J
        n == Len(T.intensities)
        dg == Get(T.derivatives)
        n_params == Len(dg[1])
    IN /\ Len(R) = n
       /\ \A i \in 1..n :
            R[i] = QSub(T.intensities[i],
                        QMul(T.inverse_scale_factors[i], T.Ih_values[i]))
       /\ Len(J) = n
       /\ \A i \in 1..n :
            /\ Len(J[i]) = n_params
            /\ \A j \in 1..n_params :
                 QAdd(J[i][j], QMul(T.Ih_values[i], dg[i][j])) = Q(0, 1)
       /\ Len(G) = n_params
       /\ \A j \in 1..n_params :
            G[j] = QMul(Q(-2, 1),
                        QSum([i \in 1..n |->
                                QMul(QMul(T.weights[i], R[i]),
                                     QMul(T.Ih_values[i], dg[i][j]))]))
       /\ T = mock_single_Ih_table =>
            /\ R = expected_residuals
            /\ G = <<Q(-44, 1)>>
            /\ J = <<<<Q(-11, 1)>>, <<Q(-22, 1)>>, <<Q(-33, 1)>>>>

C19_Witness ==
  /\ sc.pc = "fixed"
  /\ Get(sc.fixed).Ih_table = mock_single_Ih_table
  /\ Get(sc.fixed).R = expected_residuals

\* the KB model at scale 2, decay 0 on the three-reflection table
KBScaleTwo ==
  /\ sc.pc = "target"
  /\ sc.rt = generated_refl
  /\ Get(sc.apm).components_list = <<"scale", "decay">>
  /\ Get(sc.apm).x = <<Q(2, 1), Q(0, 1)>>

\* C20: for the KB model with scale 2 and decay 0 on the three-reflection
\* table, after update_for_minimisation the weighted squared residuals are
\* 0, 50/36, 100/36 in the Ih table's sorted order and the squared rmsd is
\* 150/108.
C20_KBTarget ==
  KBScaleTwo =>
    LET T == Get(sc.Ih_table)
        R == Get(sc.residuals)
    IN /\ [i \in 1..Len(R) |-> QMul(QMul(R[i], R[i]), T.weights[i])]
            = <<Q(0, 1), Q(50, 36), Q(100, 36)>>
       /\ Get(sc.rmsds_squared) = Q(150, 108)

C20_Witness ==
  /\ KBScaleTwo
  /\ Get(sc.Ih_table).asu_miller_index = <<<<0, 0, 1>>, <<1, 0, 0>>, <<1, 0, 0>>>>
  /\ Get(sc.Ih_table).inverse_scale_factors = <<Q(2, 1), Q(2, 1), Q(2, 1)>>

\* the per-reflection scales of the two components other than param_name,
\* combined row by row: the product, or the sum for 'log'
OtherTwoCombined(obj, param_name) ==
  LET others_ == ComponentNames \ {param_name}
      a == CHOOSE name \in others_ : TRUE
      b == CHOOSE name \in others_ : name # a
      sa == get_scales_of_reflections(Registered(obj, a))
      sb == get_scales_of_reflections(Registered(obj, b))
  IN IF Get(obj.scaling_options).parameterization = "log"
     THEN [i \in 1..Len(sa) |-> sa[i] + sb[i]]
     ELSE [i \in 1..Len(sa) |-> sa[i] * sb[i]]

\* C23: XDS set_up_minimisation(param_name) for a registered component, under
\* the 'standard' or the 'log' parameterization, returns that component's
\* parameter vector, makes it the active parameterisation with
\* n_active_params its length, and sets constant_g_values to the product
\* ('standard') or the sum ('log') of exactly the other two components'
\* per-reflection scales.
C23_SetUpMinimisation ==
  [][(/\ call'.op = "set_up_minimisation" /\ ncalls' = ncalls + 1
      /\ variant = "XDS" /\ call'.arg \in ComponentNames
      /\ scaling_options.parameterization \in {"standard", "log"}) =>
       LET g == Registered(self, call'.arg)
       IN /\ self'.raised = ""
          /\ self'.returned = Some(get_scale_factors(g))
          /\ self'.active_parameterisation = Some(call'.arg)
          /\ self'.n_active_params = Some(Len(get_scale_factors(g)))
          /\ self'.constant_g_values = Some(OtherTwoCombined(self, call'.arg))]_vars

\* set_up_minimisation for g_decay has just returned on an object whose
\* components hold different scales
C23_Witness ==
  /\ variant = "XDS" /\ call.op = "set_up_minimisation" /\ call.arg = "g_decay"
  /\ self.raised = "" /\ self.returned = Some(get_scale_factors(Registered(self, "g_decay")))
  /\ self.constant_g_values # None
  /\ \E i \in 1..Len(Get(self.constant_g_values)) :
       Get(self.constant_g_values)[i]
         # get_scales_of_reflections(Registered(self, "g_decay"))[i]

\* C24: XDS set_up_minimisation called with a name that is not a registered
\* component fails and leaves active_parameterisation, n_active_params and
\* constant_g_values exactly as they were before the call.
C24_UnregisteredName ==
  [][(/\ call'.op = "set_up_minimisation" /\ ncalls' = ncalls + 1
      /\ variant = "XDS" /\ call'.arg \notin ComponentNames) =>
       /\ self'.raised # ""
       /\ self'.active_parameterisation = self.active_parameterisation
       /\ self'.n_active_params = self.n_active_params
       /\ self'.constant_g_values = self.constant_g_values]_vars

\* the component as the minimisation reaches it: through g_parameterisation
\* for the XDS variant, through the attribute otherwise
ComponentOf(v, obj, name) ==
  IF v = "XDS" THEN Registered(obj, name) ELSE Get(obj[name])

\* C25: whenever update_for_minimisation or set_up_minimisation runs, each
\* scale-factor component holds the normalised coordinates of exactly the
\* rows of reflections_for_scaling, so the scales written to its
\* inverse_scale_factor column are one per row and the call never fails on a
\* length mismatch; also after expand_scales_to_all_reflections.
C25_ComponentsFollowScalingSubset ==
  [][(/\ call'.op \in {"update_for_minimisation", "set_up_minimisation"}
      /\ ncalls' = ncalls + 1) =>
       LET rfs == Get(self.reflections_for_scaling)
           columns == ComponentColumns(variant)
       IN /\ \A name \in DOMAIN columns :
               ComponentOf(variant, self, name).normalised_values
                 = Coords(rfs, columns[name])
          /\ self'.raised # "RuntimeError"]_vars

\* C26: extract_reflections_for_scaling returns exactly the rows of the table
\* given whose weight is greater than 0 (the rows no cutoff applies to), in
\* their sorted order, and weights computed again on that subset: one per
\* returned row, every one greater than 0.
C26_ExtractedSubset ==
  (pc = "EXTRACTED" /\ call.op = "") =>
    LET sr == Get(self.sorted_reflections)
        options == Get(self.scaling_options)
        rfs == Get(self.reflections_for_scaling)
        w == Get(self.weights_for_scaling)
        Kept(row) == ~CutOff(row, sr.keys, options)
    IN /\ rfs.keys = sr.keys
       /\ rfs.rows = SelectSeq(sr.rows, Kept)
       /\ Len(w) = Len(rfs.rows)
       /\ \A i \in 1..Len(w) :
            w[i] > 0 /\ w[i] = InverseVariance(rfs.rows[i]["variance"])

\* the extraction has dropped a row that lay between two rows it kept
C26_Witness ==
  /\ pc = "EXTRACTED" /\ call.op = ""
  /\ LET sr == Get(self.sorted_reflections)
         rfs == Get(self.reflections_for_scaling)
     IN /\ Len(sr.rows) = 3 /\ Len(rfs.rows) = 2
        /\ rfs.rows[1] = sr.rows[1] /\ rfs.rows[2] = sr.rows[3]
        /\ Len(Get(self.weights_for_scaling)) = 2

\* every block size search that has ended left one block, or blocks of at
\* least 50 reflections each, and one count per block
SearchExits ==
  \A k \in 1..Len(ca.results) :
    LET d == ca.results[k]
    IN d # EmptyDict =>
         /\ d["nblocks"] = 1 \/ \A i \in 1..Len(d["nref_per_block"]) :
                                  d["nref_per_block"][i] >= 50
         /\ Len(d["nref_per_block"]) = d["nblocks"]

\* C27: for every experiment with at least one reflection the block size
\* search of CentroidAnalyser.__init__ terminates, and on exit nblocks is 1 or
\* every block holds at least 50 reflections, with nref_per_block of exactly
\* nblocks entries.
C27_BlockSearchTerminates ==
  /\ [](ca.pc # "new" => SearchExits)
  /\ (ca.pc = "search") ~> (ca.pc = "experiment")

\* a search has ended on two blocks after enlarging the ideal block size
C27_Witness ==
  /\ ca.pc = "experiment" /\ ca.ideal_block_size # <<1, 1>>
  /\ Len(ca.results) > 0
  /\ LET d == ca.results[Len(ca.results)]
     IN d # EmptyDict /\ d["nblocks"] = 2 /\ d["nref_per_block"] = <<60, 90>>

\* every entry the dicts of before hold is held, unchanged, by the dicts of
\* after
EntriesKept(before, after) ==
  /\ Len(after) = Len(before)
  /\ \A k \in 1..Len(before) : \A key \in DOMAIN before[k] :
       key \in DOMAIN after[k] /\ after[k][key] = before[k][key]

\* C28: __call__ is repeatable: the flags _average_residuals and
\* _spectral_analysis only go from False to True, a call with both arguments
\* False changes no state, and every call returns the results list with the
\* per-block averages and periodograms of the first call that produced them,
\* whatever spans a later call passes.
C28_Repeatable ==
  [][(ca.pc = "constructed" /\ ca'.ncalls = ca.ncalls + 1) =>
       /\ ca.average_residuals => ca'.average_residuals
       /\ ca.spectral_analysis => ca'.spectral_analysis
       /\ (~ca'.last.calc_average_residuals /\ ~ca'.last.calc_periodograms) =>
            /\ ca'.results = ca.results
            /\ ca'.reflections = ca.reflections
            /\ ca'.average_residuals = ca.average_residuals
            /\ ca'.spectral_analysis = ca.spectral_analysis
       /\ EntriesKept(ca.results, ca'.results)
       /\ ca'.raised = "" => ca'.returned = Some(ca'.results)]_vars

\* C21: the analytic Jacobian and gradient of the scaling target match the
\* central finite-difference Jacobian and gradient, taken by perturbing each
\* active parameter and running update_for_minimisation again, and the
\* comparison is made where the residual is not zero throughout.
C21_FiniteDifference ==
  sc.pc = "compared" =>
    LET c == Get(sc.compared)
    IN /\ c.jacobian = c.fd_jacobian
       /\ c.grad = c.f_d_grad
       /\ \E i \in 1..Len(c.res) : c.res[i] # Q(0, 1)

\* the comparison over the scale and the decay parameter at decay 8, with a
\* gradient and a Jacobian entry that are not zero
C21_Witness ==
  /\ sc.pc = "compared"
  /\ Get(sc.apm).components_list = <<"scale", "decay">>
  /\ Get(sc.apm).x[2] = Q(8, 1)
  /\ LET c == Get(sc.compared)
     IN /\ \E i \in 1..Len(c.res) : c.res[i] # Q(0, 1)
        /\ \E i \in 1..Len(c.res) : c.fd_jacobian[i][2] # Q(0, 1)
        /\ c.f_d_grad[2] # Q(0, 1)

\* the ranges follow one another from the first row to the last
CoverDisjoint(ranges, n) ==
  /\ ranges[1][1] = 1 /\ ranges[Len(ranges)][2] = n
  /\ \A b \in 1..Len(ranges) : ranges[b][1] <= ranges[b][2] + 1
  /\ \A b \in 1..(Len(ranges) - 1) : ranges[b + 1][1] = ranges[b][2] + 1

ShapesSeen == {ts.calls[k].shape : k \in 1..Len(ts.calls)}

\* the last call with the shape of call k that returned
LastReturned(k) ==
  CHOOSE l \in 1..Len(ts.calls) :
    /\ ts.calls[l].shape = ts.calls[k].shape /\ ts.calls[l].returned # None
    /\ \A m \in (l + 1)..Len(ts.calls) :
         ts.calls[m].shape # ts.calls[k].shape \/ ts.calls[m].returned = None

\* C29: after any sequence of XDSThresholdStrategy calls the strategy holds
\* exactly one (algorithm, result buffer) entry per distinct image shape seen
\* so far, a call with a shape seen before makes no new entry, and two calls
\* with the same shape return the same buffer, so that the mask an earlier
\* call returned holds what the latest call with that shape computed.
C29_OneBufferPerShape ==
  ts.pc = "ready" =>
    /\ DOMAIN ts.algorithm = ShapesSeen
    /\ Len(ts.heap) = Cardinality(ShapesSeen)
    /\ \A a, b \in ShapesSeen :
         a # b => ts.algorithm[a].result # ts.algorithm[b].result
    /\ \A k \in 1..Len(ts.calls) :
         ts.calls[k].returned # None =>
           /\ ts.calls[k].returned = Some(ts.algorithm[ts.calls[k].shape].result)
           /\ ts.heap[Get(ts.calls[k].returned)] = Get(ts.calls[LastReturned(k)].mask)

\* two calls with the same shape computed different masks; the buffer the
\* first returned no longer holds its mask
C29_Witness ==
  /\ ts.pc = "ready" /\ Len(ts.calls) >= 2
  /\ \E k, l \in 1..Len(ts.calls) :
       /\ k < l /\ ts.calls[k].shape = ts.calls[l].shape
       /\ ts.calls[k].returned # None /\ ts.calls[l].returned # None
       /\ ts.calls[k].returned = ts.calls[l].returned
       /\ ts.calls[k].mask # ts.calls[l].mask
       /\ ts.heap[Get(ts.calls[k].returned)] # Get(ts.calls[k].mask)

\* what get_B, get_unit_cell, get_A and get_U return agree
CrystalConsistent(obj) ==
  /\ obj.B = sqr_transpose(fractionalization_matrix(obj.uc))
  /\ get_A(obj) = sqr_mul(obj.U, obj.B)

\* C30: after construction and after every set_unit_cell, set_B, set_U and
\* set_mosaicity call, B is the transpose of the fractionalization matrix of
\* the unit cell and A is U * B; set_unit_cell and set_B leave U and the space
\* group as they were; set_U with a matrix that is not a rotation raises and
\* leaves U as it was
C30_CrystalConsistent ==
  [][cr'.pc = "ready" =>
       /\ CrystalConsistent(cr')
       /\ (cr.pc = "ready" /\ cr'.last.op \in {"set_unit_cell", "set_B"}
             => cr'.U = cr.U /\ cr'.sg = cr.sg)
       /\ (cr.pc = "ready" /\ cr'.last.op = "set_U"
             /\ ~is_r3_rotation_matrix(cr'.last.arg)
             => cr'.raised = "AssertionError" /\ cr'.U = cr.U)]_vars

\* a crystal whose cell became oblique, so that transposing B shows, and whose
\* last set_U was refused
C30_Witness ==
  /\ cr.pc = "ready"
  /\ cr.ncalls = MaxCrystalCalls
  /\ cr.last.op = "set_U"
  /\ cr.raised = "AssertionError"
  /\ cr.B # sqr_transpose(cr.B)
  /\ cr.U # sqr_identity

====
